---- MODULE Spec2Model ----
(***************************************************************************)
(* A model of PyA3EDA: the identity/path builder (core/builders/builder),  *)
(* the status classifier (core/parsers/qchem_status_parser and             *)
(* core/status/status_checker), the result extraction pipeline             *)
(* (core/extractors/data_extractor) and the profile assembler              *)
(* (core/extractors/profile_extractor_functional).                         *)
(*                                                                         *)
(* A text file is modelled by what the program can observe of it: the set  *)
(* of marker strings it contains, the first match of each regular          *)
(* expression the parsers apply, and whether it starts or ends with        *)
(* whitespace.                                                             *)
(***************************************************************************)
EXTENDS Integers, Sequences, FiniteSets, TLC

VARIABLES
    phase,      \* which operation of the program the behaviour exercises
    stFiles,    \* status classifier: the files of the calculation examined
    stMeta,     \* status classifier: the metadata passed to get_status_for_file
    stResult,   \* status classifier: the (status, details) pair returned
    processed_config, \* builder: the processed configuration
    plan,       \* builder: the calls of process_file one run makes, in order
    run,        \* builder: the arguments of the run of process_input_files under way
    pos,        \* builder: the index in plan of the next call of process_file
    processed_opt_files, \* builder: the set of that name of the run under way
    yielded,    \* builder: what the latest run has yielded so far
    earlier,    \* builder: what the yield-mode run completed before it yielded
    last,       \* builder: how the latest call of process_file returned
    fsInputs,   \* system directory: the paths of the input files that exist
    fsJobs,     \* system directory: the job files next to each input file
    fsTemplates, \* system directory: the state of the templates directory
    exCriteria, \* extraction: the status criteria of the run
    method_combos, \* extraction: sorted(method_combos.keys())
    combo_idx,  \* extraction: the index in method_combos of the combo under way
    exStage,    \* extraction: the loop of extract_method_combo_data under way
    input_files, \* extraction: the (path, metadata) pairs of the combo under way
    file_idx,   \* extraction: the index of the next file of the loop under way
    combo_result, \* extraction: result["opt_data"] and result["sp_data"]
    opt_content_cache, \* extraction: the dict of that name of the combo under way
    all_results, \* extraction: per combo, the records handed to the CSV writers
    failed_combos, \* extraction: the combos whose processing raised
    raw_data_list, \* profiles: the records given to extract_profiles
    pfLookup,   \* profiles: energy_lookup
    cat_idx,    \* profiles: the index in all_catalysts of the next catalyst
    profiles,   \* profiles: the dict of that name
    pfStage     \* profiles: where the call of extract_profiles stands

stVars == <<stFiles, stMeta, stResult>>
buildVars == <<processed_config, plan, run, pos, processed_opt_files, yielded, earlier, last>>
fsVars == <<fsInputs, fsJobs, fsTemplates>>
exVars == <<exCriteria, method_combos, combo_idx, exStage, input_files, file_idx,
           combo_result, opt_content_cache, all_results, failed_combos>>
pfVars == <<raw_data_list, pfLookup, cat_idx, profiles, pfStage>>
vars == <<phase, stVars, buildVars, fsVars, exVars, pfVars>>

(***************************************************************************)
(* Bounds                                                                  *)
(***************************************************************************)
\* largest number of distinct status markers in one output text
MaxMarkers == 3
\* largest imaginary-frequency count an output reports
MaxImag == 2

(***************************************************************************)
(* Texts                                                                   *)
(***************************************************************************)
\* Python's None where a string is expected, and where a number is expected
None == "<None>"
NoneInt == 0 - 999999

\* marker strings parse_qchem_status looks for in the .out text
OutMarkers == {"Running on", "Thank you very much", "Q-Chem fatal error occurred",
               "SGeom Failed", "SCF failed to converge", "Insufficient memory",
               "Killed", "terminating", "other text"}

\* marker strings parse_qchem_status looks for in the .err text
ErrMarkers == {"CANCELLED AT", "Error in Q-Chem run", "Aborted"}

\* the empty string
EmptyText == [exists |-> TRUE, lead |-> FALSE, trail |-> FALSE, markers |-> {},
              opt |-> None, imag |-> NoneInt, values |-> <<>>]

\* a path at which no file exists
NoFile == [EmptyText EXCEPT !.exists = FALSE]

\* TRUE iff the text has no character that is not whitespace
IsBlank(t) == t.markers = {} /\ t.opt = None /\ t.imag = NoneInt /\ DOMAIN t.values = {}

\* Python truthiness of a str: non-empty
Truthy(t) == ~IsBlank(t) \/ t.lead \/ t.trail

\* str.strip() is non-empty
StripTruthy(t) == ~IsBlank(t)

\* the test content.startswith(m) in place of `m in content`
Contains_Anchored(t, m) == m \in t.markers /\ ~t.lead

\* substring test `m in content`
Contains(t, m) == m \in t.markers

\* str.lower(): the marker strings of the text in lower case
LowerOf(m) ==
    CASE m = "Killed" -> "killed"
      [] m = "SUCCESSFUL" -> "successful"
      [] m = "CRASH" -> "crash"
      [] m = "VALIDATION" -> "validation"
      [] m = "False" -> "false"
      [] OTHER -> m

ContainsLower(t, m) == \E k \in t.markers : LowerOf(k) = m

\* file_utils.read_text: the text of the file with trailing whitespace removed
read_text(f) ==
    IF ~f.exists THEN EmptyText
    ELSE IF IsBlank(f) THEN EmptyText
    ELSE [f EXCEPT !.trail = FALSE]

\* qchem_result_parser.parse_optimization_status: first convergence marker
parse_optimization_status(content) == content.opt

\* qchem_result_parser.parse_imaginary_frequencies: reported count
parse_imaginary_frequencies(content) == content.imag

(***************************************************************************)
(* Status classifier                                                       *)
(***************************************************************************)
ErrContains(e, m) == m \in e

\* crash detail when the error stream signals an abnormal termination
CrashDetail(content) ==
    IF ~Truthy(content) THEN "Q-Chem execution crashed"
    ELSE IF Contains(content, "Q-Chem fatal error occurred") THEN "first clause of error message"
    ELSE IF Contains(content, "SGeom Failed") THEN "Geometry optimization failed"
    ELSE IF Contains(content, "SCF failed to converge") THEN "SCF convergence failure"
    ELSE IF Contains(content, "Insufficient memory") THEN "Out of memory"
    ELSE "Unknown failure"

\* parse_qchem_status with the output's failure markers tested before the
\* completion marker
parse_qchem_status_FailureFirst(content, err_content, submission_exists) ==
    IF ErrContains(err_content, "CANCELLED AT")
      THEN <<"terminated", "Job cancelled by Queue">>
    ELSE IF ErrContains(err_content, "Error in Q-Chem run") \/ ErrContains(err_content, "Aborted")
      THEN <<"CRASH", CrashDetail(content)>>
    ELSE IF submission_exists
      THEN <<"running", "Job submission file exists">>
    ELSE IF ~Truthy(content)
      THEN <<"nofile", "Output file not found">>
    ELSE IF Contains(content, "Running on") /\ ~Contains(content, "Thank you very much")
      THEN <<"running", "Calculation in progress">>
    ELSE IF Contains(content, "Q-Chem fatal error occurred")
      THEN <<"CRASH", "first clause of error message">>
    ELSE IF Contains(content, "SGeom Failed")
      THEN <<"CRASH", "Geometry optimization failed">>
    ELSE IF Contains(content, "SCF failed to converge")
      THEN <<"CRASH", "SCF convergence failure">>
    ELSE IF Contains(content, "Insufficient memory")
      THEN <<"CRASH", "Out of memory">>
    ELSE IF Contains(content, "Thank you very much")
      THEN <<"SUCCESSFUL", "Completed in job time">>
    ELSE IF ContainsLower(content, "killed") \/ ContainsLower(content, "terminating")
      THEN <<"terminated", "Job terminated unexpectedly">>
    ELSE IF StripTruthy(content)
      THEN <<"CRASH", "Unknown failure">>
    ELSE <<"empty", "Output file is empty">>

\* parse_qchem_status looking for the submission file after the completion
\* marker
parse_qchem_status_SubmissionLast(content, err_content, submission_exists) ==
    IF ErrContains(err_content, "CANCELLED AT")
      THEN <<"terminated", "Job cancelled by Queue">>
    ELSE IF ErrContains(err_content, "Error in Q-Chem run") \/ ErrContains(err_content, "Aborted")
      THEN <<"CRASH", CrashDetail(content)>>
    ELSE IF ~Truthy(content)
      THEN <<"nofile", "Output file not found">>
    ELSE IF Contains(content, "Running on") /\ ~Contains(content, "Thank you very much")
      THEN <<"running", "Calculation in progress">>
    ELSE IF Contains(content, "Thank you very much")
      THEN <<"SUCCESSFUL", "Completed in job time">>
    ELSE IF submission_exists
      THEN <<"running", "Job submission file exists">>
    ELSE IF Contains(content, "Q-Chem fatal error occurred")
      THEN <<"CRASH", "first clause of error message">>
    ELSE IF Contains(content, "SGeom Failed")
      THEN <<"CRASH", "Geometry optimization failed">>
    ELSE IF Contains(content, "SCF failed to converge")
      THEN <<"CRASH", "SCF convergence failure">>
    ELSE IF Contains(content, "Insufficient memory")
      THEN <<"CRASH", "Out of memory">>
    ELSE IF ContainsLower(content, "killed") \/ ContainsLower(content, "terminating")
      THEN <<"terminated", "Job terminated unexpectedly">>
    ELSE IF StripTruthy(content)
      THEN <<"CRASH", "Unknown failure">>
    ELSE <<"empty", "Output file is empty">>

\* parse_qchem_status without the rule for a text no marker is found in
parse_qchem_status_NoDefault(content, err_content, submission_exists) ==
    IF ErrContains(err_content, "CANCELLED AT")
      THEN <<"terminated", "Job cancelled by Queue">>
    ELSE IF ErrContains(err_content, "Error in Q-Chem run") \/ ErrContains(err_content, "Aborted")
      THEN <<"CRASH", CrashDetail(content)>>
    ELSE IF submission_exists
      THEN <<"running", "Job submission file exists">>
    ELSE IF ~Truthy(content)
      THEN <<"nofile", "Output file not found">>
    ELSE IF Contains(content, "Running on") /\ ~Contains(content, "Thank you very much")
      THEN <<"running", "Calculation in progress">>
    ELSE IF Contains(content, "Thank you very much")
      THEN <<"SUCCESSFUL", "Completed in job time">>
    ELSE IF Contains(content, "Q-Chem fatal error occurred")
      THEN <<"CRASH", "first clause of error message">>
    ELSE IF Contains(content, "SGeom Failed")
      THEN <<"CRASH", "Geometry optimization failed">>
    ELSE IF Contains(content, "SCF failed to converge")
      THEN <<"CRASH", "SCF convergence failure">>
    ELSE IF Contains(content, "Insufficient memory")
      THEN <<"CRASH", "Out of memory">>
    ELSE IF ContainsLower(content, "killed") \/ ContainsLower(content, "terminating")
      THEN <<"terminated", "Job terminated unexpectedly">>
    ELSE <<"empty", "Output file is empty">>

parse_qchem_status(content, err_content, submission_exists) ==
    IF ErrContains(err_content, "CANCELLED AT")
      THEN <<"terminated", "Job cancelled by Queue">>
    ELSE IF ErrContains(err_content, "Error in Q-Chem run") \/ ErrContains(err_content, "Aborted")
      THEN <<"CRASH", CrashDetail(content)>>
    ELSE IF submission_exists
      THEN <<"running", "Job submission file exists">>
    ELSE IF ~Truthy(content)
      THEN <<"nofile", "Output file not found">>
    ELSE IF Contains(content, "Running on") /\ ~Contains(content, "Thank you very much")
      THEN <<"running", "Calculation in progress">>
    ELSE IF Contains(content, "Thank you very much")
      THEN <<"SUCCESSFUL", "Completed in job time">>
    ELSE IF Contains(content, "Q-Chem fatal error occurred")
      THEN <<"CRASH", "first clause of error message">>
    ELSE IF Contains(content, "SGeom Failed")
      THEN <<"CRASH", "Geometry optimization failed">>
    ELSE IF Contains(content, "SCF failed to converge")
      THEN <<"CRASH", "SCF convergence failure">>
    ELSE IF Contains(content, "Insufficient memory")
      THEN <<"CRASH", "Out of memory">>
    ELSE IF ContainsLower(content, "killed") \/ ContainsLower(content, "terminating")
      THEN <<"terminated", "Job terminated unexpectedly">>
    ELSE IF StripTruthy(content)
      THEN <<"CRASH", "Unknown failure">>
    ELSE <<"empty", "Output file is empty">>

\* the files of one calculation: its input file, the .out and .err files next
\* to it, and whether a submission marker file matches one of the two globs
CalcFiles(inp, out, err, sub) == [inp |-> inp, out |-> out, err |-> err, sub |-> sub]

\* metadata = None
NoMeta == [Mode |-> None, Branch |-> None]

ConvergenceType(opt_status) ==
    IF opt_status = None THEN "unknown"
    ELSE IF opt_status = "TRANSITION STATE CONVERGED" THEN "ts"
    ELSE IF opt_status = "OPTIMIZATION CONVERGED" THEN "opt"
    ELSE "unknown"

ImagCount(imag_freq) ==
    IF imag_freq = NoneInt THEN 0 ELSE imag_freq

\* ValidationFailed that accepts any converged minimum on a ts branch
ValidationFailed_TsOnly(branch, convergence_type, imag_count) ==
    IF branch = "ts"
      THEN convergence_type = "ts" /\ imag_count # 1
      ELSE imag_count > 0

ValidationFailed(branch, convergence_type, imag_count) ==
    IF branch = "ts"
      THEN (convergence_type = "opt" /\ imag_count # 1)
           \/ (convergence_type = "ts" /\ imag_count # 1)
      ELSE imag_count > 0

BaseStatus(files) ==
    parse_qchem_status(IF files.out.exists THEN read_text(files.out) ELSE EmptyText,
                       IF files.err.exists THEN files.err.markers ELSE {},
                       files.sub)

get_status_for_file(files, metadata) ==
    LET content == IF files.out.exists THEN read_text(files.out) ELSE EmptyText
        base == BaseStatus(files)
    IN  IF base[1] = "SUCCESSFUL" /\ metadata # NoMeta /\ metadata.Mode = "opt" /\ Truthy(content)
          THEN LET opt_status == parse_optimization_status(content)
                   imag_freq == parse_imaginary_frequencies(content)
                   convergence_type == ConvergenceType(opt_status)
                   imag_count == ImagCount(imag_freq)
               IN  IF opt_status = None /\ imag_freq = NoneInt THEN base
                   ELSE IF ValidationFailed(metadata.Branch, convergence_type, imag_count)
                     THEN <<"VALIDATION", "Conv: " \o convergence_type \o ", Imag: " \o ToString(imag_count)>>
                   ELSE base
          ELSE base

\* should_process_file(input_file, criteria, metadata): (should_process, reason)
should_process_file(files, criteria, metadata) ==
    IF ~files.inp THEN <<FALSE, "File doesn't exist">>
    ELSE IF criteria = None THEN <<FALSE, "No criteria specified">>
    ELSE IF LowerOf(criteria) = "all" THEN <<TRUE, "Process all">>
    ELSE IF LowerOf(criteria) = "nofile"
      THEN IF ~files.out.exists THEN <<TRUE, "Output file doesn't exist">>
           ELSE <<FALSE, "Output file exists">>
    ELSE LET status == get_status_for_file(files, metadata)[1]
         IN  IF LowerOf(status) = LowerOf(criteria)
               THEN <<TRUE, "Status match: " \o status>>
               ELSE <<FALSE, "Status mismatch: " \o status \o " != " \o criteria>>

(***************************************************************************)
(* Configuration (config_manager.py)                                       *)
(***************************************************************************)
\* Constants.ESCAPE_MAP
ESCAPE_MAP(c) ==
    CASE c = " " -> "-space-" [] c = "(" -> "-lparen-" [] c = ")" -> "-rparen-"
      [] c = "[" -> "-lbracket-" [] c = "]" -> "-rbracket-"
      [] c = "{" -> "-lbrace-" [] c = "}" -> "-rbrace-"
      [] c = "," -> "-comma-" [] c = ";" -> "-semicolon-" [] c = "*" -> "-asterisk-"
      [] c = "?" -> "-qmark-" [] c = "&" -> "-and-" [] c = "|" -> "-pipe-"
      [] c = "<" -> "-lt-" [] c = ">" -> "-gt-" [] c = "\"" -> "-dq-"
      [] c = "'" -> "-sq-" [] c = "\\" -> "-backslash-" [] c = ":" -> "-colon-"
      [] c = "$" -> "-dollar-" [] c = "~" -> "-tilde-" [] c = "!" -> "-exclamation-"
      [] c = "=" -> "-equal-" [] c = "\t" -> "-tab-" [] c = "\n" -> "-newline-"
      [] OTHER -> c

\* file_utils.sanitize_filename: every character of ESCAPE_MAP replaced, then
\* strip('_')
sanitize_filename(name) ==
    LET RECURSIVE replaced(_)
        replaced(n) == IF n = "" THEN ""
                       ELSE ESCAPE_MAP(SubSeq(n, 1, 1)) \o replaced(SubSeq(n, 2, Len(n)))
        RECURSIVE lstrip(_)
        lstrip(n) == IF n # "" /\ SubSeq(n, 1, 1) = "_"
                       THEN lstrip(SubSeq(n, 2, Len(n))) ELSE n
        RECURSIVE rstrip(_)
        rstrip(n) == IF n # "" /\ SubSeq(n, Len(n), Len(n)) = "_"
                       THEN rstrip(SubSeq(n, 1, Len(n) - 1)) ELSE n
    IN  rstrip(lstrip(replaced(name)))

\* ConfigManager._create_value_entry for a value given as [opt, sp], as a
\* single value (raw_sp = None) or not at all (val = "")
create_value_entry(val, raw_sp, default) ==
    IF val = ""
      THEN [opt |-> sanitize_filename(default), sp |-> "", sp_enabled |-> FALSE]
    ELSE IF raw_sp \notin {None, "false", ""}
      THEN [opt |-> sanitize_filename(val), sp |-> sanitize_filename(raw_sp), sp_enabled |-> TRUE]
      ELSE [opt |-> sanitize_filename(val), sp |-> "", sp_enabled |-> FALSE]

\* ConfigManager._process_method_config
process_method_config(m) ==
    [name |-> create_value_entry(m.name[1], m.name[2], "false"),
     dispersion |-> create_value_entry(m.dispersion[1], m.dispersion[2], "false"),
     solvent |-> create_value_entry(m.solvent[1], m.solvent[2], "false"),
     basis_sets |-> [i \in 1..Len(m.basis_sets) |->
                        create_value_entry(m.basis_sets[i][1], m.basis_sets[i][2], "false")],
     eda2 |-> m.eda2]

\* ConfigManager._process_species_config
process_species_config(sp) ==
    [name |-> create_value_entry(sp.name, None, "false"), include |-> sp.include]

\* ConfigManager._process_config
process_config(raw) ==
    [methods |-> [i \in 1..Len(raw.methods) |-> process_method_config(raw.methods[i])],
     catalysts |-> [i \in 1..Len(raw.catalysts) |-> process_species_config(raw.catalysts[i])],
     reactants |-> [i \in 1..Len(raw.reactants) |-> process_species_config(raw.reactants[i])],
     products |-> [i \in 1..Len(raw.products) |-> process_species_config(raw.products[i])]]

(***************************************************************************)
(* Identity/path builder (builder.py)                                      *)
(***************************************************************************)
\* sep.join(parts)
RECURSIVE Join(_, _)
Join(parts, sep) ==
    IF Len(parts) = 0 THEN ""
    ELSE IF Len(parts) = 1 THEN parts[1]
    ELSE parts[1] \o sep \o Join(Tail(parts), sep)

\* `x and x.lower() != "false"`
NotFalse(x) == x # "" /\ LowerOf(x) # "false"

build_method_folder_name(method, basis, dispersion, solvent) ==
    Join(<<method>>
         \o (IF NotFalse(dispersion) THEN <<dispersion>> ELSE <<>>)
         \o <<basis>>
         \o (IF NotFalse(solvent) THEN <<solvent>> ELSE <<>>), "_")

ValueError == "<ValueError>"

\* the path relative to system_dir; opt_params is None in opt mode
build_file_path(method, basis, dispersion, solvent, category, branch, species, calc_type, catalyst_name, mode, opt_params) ==
    LET suffix == IF mode = "opt" THEN "_opt.in" ELSE "_sp.in"
        top == IF mode = "opt"
                 THEN build_method_folder_name(method, basis, dispersion, solvent)
                 ELSE build_method_folder_name(opt_params.method, opt_params.basis,
                                               opt_params.dispersion, opt_params.solvent)
        sp_folder == IF mode = "sp"
                       THEN <<build_method_folder_name(method, basis, dispersion, solvent) \o "_sp">>
                       ELSE <<>>
    IN  IF mode \notin {"opt", "sp"} THEN ValueError
        ELSE IF category = "no_cat" THEN
            IF branch \in {"reactants", "products"}
              THEN Join(<<top, "no_cat", branch, species>> \o sp_folder
                        \o <<species \o suffix>>, "/")
            ELSE IF branch = "ts"
              THEN Join(<<top, "no_cat", "ts">> \o sp_folder \o <<"tscomplex" \o suffix>>, "/")
            ELSE ValueError
        ELSE IF category = "cat" THEN
            IF catalyst_name = "" THEN ValueError
            ELSE IF branch \in {"preTS", "postTS"}
              THEN Join(<<top, catalyst_name, branch, species, calc_type>> \o sp_folder
                        \o <<branch \o "_" \o species \o "_" \o calc_type \o suffix>>, "/")
            ELSE IF branch = "ts"
              THEN Join(<<top, catalyst_name, "ts", calc_type>> \o sp_folder
                        \o <<"ts_" \o catalyst_name \o "-tscomplex_" \o calc_type \o suffix>>, "/")
            ELSE IF branch = "cat"
              THEN Join(<<top, catalyst_name, "cat">> \o sp_folder
                        \o <<catalyst_name \o suffix>>, "/")
            ELSE ValueError
        ELSE ValueError

\* itertools.combinations(s, r): the r-element subsequences of s, in order
RECURSIVE combinations(_, _)
combinations(s, r) ==
    IF r = 0 THEN << <<>> >>
    ELSE IF Len(s) < r THEN <<>>
    ELSE LET withHead == combinations(Tail(s), r - 1)
         IN  [i \in 1..Len(withHead) |-> <<Head(s)>> \o withHead[i]]
             \o combinations(Tail(s), r)

RECURSIVE CombinationsFrom(_, _)
CombinationsFrom(s, r) ==
    IF r > Len(s) THEN <<>>
    ELSE combinations(s, r) \o CombinationsFrom(s, r + 1)

\* get_combinations that joins the names of each combination in reverse
get_combinations_Reversed(species_list, min_length) ==
    LET cs == CombinationsFrom(species_list, min_length)
    IN  [i \in 1..Len(cs) |->
            Join([j \in 1..Len(cs[i]) |-> cs[i][Len(cs[i]) + 1 - j].name.opt], "-")]

\* get_combinations: dash-joined names of every combination of at least
\* min_length species, shortest first
get_combinations(species_list, min_length) ==
    LET cs == CombinationsFrom(species_list, min_length)
    IN  [i \in 1..Len(cs) |-> Join([j \in 1..Len(cs[i]) |-> cs[i][j].name.opt], "-")]

\* the include filter that keeps every species
Included_All(s) == s

\* [x for x in s if x.get("include", True)]
RECURSIVE Included(_)
Included(s) ==
    IF Len(s) = 0 THEN <<>>
    ELSE (IF Head(s).include THEN <<Head(s)>> ELSE <<>>) \o Included(Tail(s))

\* the (method, basis set) pairs in the order of the nested loops over
\* processed_config["methods"] and method["basis_sets"]
RECURSIVE MethodBasisPairs(_, _)
MethodBasisPairs(config, i) ==
    IF i > Len(config.methods) THEN <<>>
    ELSE [j \in 1..Len(config.methods[i].basis_sets) |-> [m |-> i, b |-> j]]
         \o MethodBasisPairs(config, i + 1)

\* opt_groups: one group per distinct opt configuration, in insertion order,
\* holding the first pair with that key and every sp-enabled pair with it
RECURSIVE OptGroups(_, _, _)
OptGroups(config, pairs, groups) ==
    IF Len(pairs) = 0 THEN groups
    ELSE LET p == Head(pairs)
             method == config.methods[p.m]
             bs == method.basis_sets[p.b]
             key == <<method.name.opt, method.dispersion.opt, bs.opt, method.solvent.opt>>
             sp == IF method.name.sp_enabled /\ bs.sp_enabled THEN <<p>> ELSE <<>>
             known == \E g \in 1..Len(groups) : groups[g].key = key
             added == IF known THEN groups
                      ELSE Append(groups, [key |-> key, opt |-> p, sp_configs |-> <<>>])
         IN  OptGroups(config, Tail(pairs),
                 [g \in 1..Len(added) |->
                     IF added[g].key = key
                       THEN [added[g] EXCEPT !.sp_configs = @ \o sp]
                       ELSE added[g]])

opt_groups(config) == OptGroups(config, MethodBasisPairs(config, 1), <<>>)

\* one call of process_opt_and_sp_for_species
SpeciesPass(category, branch, species, calc_type, catalyst_name) ==
    [category |-> category, branch |-> branch, species |-> species,
     calc_type |-> calc_type, catalyst_name |-> catalyst_name]

CalcTypes == <<"full_cat", "pol_cat", "frz_cat">>

RECURSIVE Flatten(_)
Flatten(ss) == IF Len(ss) = 0 THEN <<>> ELSE Head(ss) \o Flatten(Tail(ss))

\* the calls of process_opt_and_sp_for_species for one catalyst
CatalystPasses(config, cat_name) ==
    LET reactants_incl == Included(config.reactants)
        products_incl == Included(config.products)
        pre == get_combinations(reactants_incl, 1)
        post == get_combinations(products_incl, 1)
    IN  <<SpeciesPass("cat", "cat", cat_name, "", cat_name)>>
        \o Flatten([i \in 1..Len(pre) |->
              [c \in 1..3 |-> SpeciesPass("cat", "preTS", cat_name \o "-" \o pre[i],
                                          CalcTypes[c], cat_name)]])
        \o Flatten([i \in 1..Len(post) |->
              [c \in 1..3 |-> SpeciesPass("cat", "postTS", cat_name \o "-" \o post[i],
                                          CalcTypes[c], cat_name)]])
        \o [c \in 1..3 |-> SpeciesPass("cat", "ts", "ts_" \o cat_name \o "-tscomplex",
                                       CalcTypes[c], cat_name)]

\* the calls of process_opt_and_sp_for_species, in the order the body of
\* process_input_files makes them
SpeciesPasses(config) ==
    LET reactants_incl == Included(config.reactants)
        combos == IF Len(reactants_incl) > 1
                    THEN get_combinations(reactants_incl, 2) ELSE <<>>
    IN  [i \in 1..Len(config.reactants) |->
            SpeciesPass("no_cat", "reactants", config.reactants[i].name.opt, "", "")]
        \o [i \in 1..Len(config.products) |->
            SpeciesPass("no_cat", "products", config.products[i].name.opt, "", "")]
        \o <<SpeciesPass("no_cat", "ts", "tscomplex", "", "")>>
        \o [i \in 1..Len(combos) |-> SpeciesPass("no_cat", "reactants", combos[i], "", "")]
        \o Flatten([i \in 1..Len(config.catalysts) |->
                       CatalystPasses(config, config.catalysts[i].name.opt)])

\* one call of process_file
FileTask(pass, pair, file_mode) ==
    [m |-> pair.m, b |-> pair.b, file_mode |-> file_mode, category |-> pass.category,
     branch |-> pass.branch, species |-> pass.species, calc_type |-> pass.calc_type,
     catalyst_name |-> pass.catalyst_name]

\* process_opt_and_sp_for_species: per group, the OPT call and then one SP
\* call per sp config
PassTasks(config, pass) ==
    LET groups == opt_groups(config)
    IN  Flatten([g \in 1..Len(groups) |->
            <<FileTask(pass, groups[g].opt, "opt")>>
            \o [k \in 1..Len(groups[g].sp_configs) |->
                   FileTask(pass, groups[g].sp_configs[k], "sp")]])

\* every call of process_file one run of process_input_files makes, in order
FileTasks(config) ==
    LET passes == SpeciesPasses(config)
    IN  Flatten([i \in 1..Len(passes) |-> PassTasks(config, passes[i])])

\* substring test `a in b` on names
IsSubstring(a, b) ==
    \E i \in 1..(Len(b) - Len(a) + 1) : SubSeq(b, i, i + Len(a) - 1) = a

\* [x for x in names if x in species or x == also]
RECURSIVE PresentIn(_, _, _)
PresentIn(names, species, also) ==
    IF Len(names) = 0 THEN <<>>
    ELSE (IF IsSubstring(Head(names), species) \/ Head(names) = also
            THEN <<Head(names)>> ELSE <<>>)
         \o PresentIn(Tail(names), species, also)

NamesOf(species_list) == [i \in 1..Len(species_list) |-> species_list[i].name.opt]

\* _get_reaction_components
get_reaction_components(config, species, catalyst) ==
    [reactants |-> PresentIn(NamesOf(config.reactants), species, None),
     products |-> PresentIn(NamesOf(config.products), species, None),
     catalysts |-> PresentIn(NamesOf(config.catalysts), species, catalyst),
     all_reactants |-> NamesOf(config.reactants),
     all_products |-> NamesOf(config.products),
     all_catalysts |-> NamesOf(config.catalysts)]

\* _get_computational_metadata; the SP_ keys an opt entry does not have read
\* as None
get_computational_metadata(method, basis_set, mode) ==
    LET combo == build_method_folder_name(method.name.opt, basis_set.opt,
                                          method.dispersion.opt, method.solvent.opt)
    IN  IF mode = "opt"
          THEN [Method |-> method.name.opt, Method_Combo |-> combo,
                Basis |-> basis_set.opt, Dispersion |-> method.dispersion.opt,
                Solvent |-> method.solvent.opt,
                SP_Method |-> None, SP_Method_Combo |-> None, SP_Basis |-> None,
                SP_Dispersion |-> None, SP_Solvent |-> None]
          ELSE [Method |-> method.name.opt, Method_Combo |-> combo,
                Basis |-> basis_set.opt, Dispersion |-> method.dispersion.opt,
                Solvent |-> method.solvent.opt,
                SP_Method |-> method.name.sp,
                SP_Method_Combo |-> build_method_folder_name(method.name.sp, basis_set.sp,
                                        method.dispersion.sp, method.solvent.sp),
                SP_Basis |-> basis_set.sp, SP_Dispersion |-> method.dispersion.sp,
                SP_Solvent |-> method.solvent.sp]

create_file_metadata(config, method, basis_set, mode, category, branch, species, calc_type, catalyst, file_path) ==
    LET cm == get_computational_metadata(method, basis_set, mode)
        rc == get_reaction_components(config, species, catalyst)
    IN  [Species |-> species, Category |-> category, Branch |-> branch,
         Calc_Type |-> calc_type, Catalyst |-> catalyst, Mode |-> mode,
         Path |-> file_path,
         Method |-> cm.Method, Method_Combo |-> cm.Method_Combo, Basis |-> cm.Basis,
         Dispersion |-> cm.Dispersion, Solvent |-> cm.Solvent,
         SP_Method |-> cm.SP_Method, SP_Method_Combo |-> cm.SP_Method_Combo,
         SP_Basis |-> cm.SP_Basis, SP_Dispersion |-> cm.SP_Dispersion,
         SP_Solvent |-> cm.SP_Solvent,
         eda2 |-> method.eda2,
         reactants |-> rc.reactants, products |-> rc.products, catalysts |-> rc.catalysts,
         all_reactants |-> rc.all_reactants, all_products |-> rc.all_products,
         all_catalysts |-> rc.all_catalysts]

\* ConfigManager.get_common_values: the sanitized naming values
get_common_values(method, bs, mode) ==
    IF mode = "opt"
      THEN [method |-> method.name.opt, basis |-> bs.opt,
            dispersion |-> method.dispersion.opt, solvent |-> method.solvent.opt,
            opt_method |-> None, opt_basis |-> None, opt_dispersion |-> None,
            opt_solvent |-> None]
      ELSE [method |-> method.name.sp, basis |-> bs.sp,
            dispersion |-> method.dispersion.sp, solvent |-> method.solvent.sp,
            opt_method |-> method.name.opt, opt_basis |-> bs.opt,
            opt_dispersion |-> method.dispersion.opt, opt_solvent |-> method.solvent.opt]

\* process_file: file_path
TaskPath(config, t) ==
    LET method == config.methods[t.m]
        bs == method.basis_sets[t.b]
    IN  IF t.file_mode = "opt"
          THEN build_file_path(method.name.opt, bs.opt, method.dispersion.opt,
                               method.solvent.opt, t.category, t.branch, t.species,
                               t.calc_type, t.catalyst_name, "opt", None)
          ELSE build_file_path(method.name.sp, bs.sp, method.dispersion.sp,
                               method.solvent.sp, t.category, t.branch, t.species,
                               t.calc_type, t.catalyst_name, "sp",
                               [method |-> method.name.opt, basis |-> bs.opt,
                                dispersion |-> method.dispersion.opt,
                                solvent |-> method.solvent.opt])

\* process_file: opt_key
TaskOptKey(config, t) ==
    LET method == config.methods[t.m]
        bs == method.basis_sets[t.b]
    IN  <<method.name.opt, bs.opt, method.dispersion.opt, method.solvent.opt,
          t.category, t.branch, t.species, t.calc_type, t.catalyst_name>>

\* process_file: the SimpleNamespace(path, metadata) of yield mode
TaskItem(config, t) ==
    LET method == config.methods[t.m]
        bs == method.basis_sets[t.b]
        file_path == TaskPath(config, t)
    IN  [path |-> file_path,
         metadata |-> create_file_metadata(config, method, bs, t.file_mode, t.category,
                          t.branch, t.species, t.calc_type, t.catalyst_name, file_path)]

(***************************************************************************)
(* The system directory                                                    *)
(***************************************************************************)
\* the .out file, the .err file and the submission marker next to an input
NoJob == [out |-> NoFile, err |-> [exists |-> FALSE, markers |-> {}], sub |-> FALSE]

\* the files of the calculation whose input file is at path
FilesAt(inputs, jobs, path) ==
    LET j == IF path \in DOMAIN jobs THEN jobs[path] ELSE NoJob
    IN  CalcFiles(path \in inputs, j.out, j.err, j.sub)

\* build_and_write_input_file whose "smart" check reads the base status of
\* the optimisation, without its metadata
build_and_write_input_file_BaseStatus(inputs, jobs, templates, sanitized, category, branch, species, calc_type, catalyst_name, mode, overwrite, sp_strategy) ==
    LET opt_params == IF mode = "sp"
                        THEN [method |-> sanitized.opt_method, basis |-> sanitized.opt_basis,
                              dispersion |-> sanitized.opt_dispersion,
                              solvent |-> sanitized.opt_solvent]
                        ELSE None
        opt_input_path == IF mode = "sp"
                            THEN build_file_path(sanitized.opt_method, sanitized.opt_basis,
                                     sanitized.opt_dispersion, sanitized.opt_solvent,
                                     category, branch, species, calc_type, catalyst_name,
                                     "opt", None)
                            ELSE None
        file_path == build_file_path(sanitized.method, sanitized.basis,
                         sanitized.dispersion, sanitized.solvent, category, branch,
                         species, calc_type, catalyst_name, mode, opt_params)
        result(o) == [outcome |-> o, path |-> file_path]
    IN  IF mode = "sp" /\ sp_strategy = "never" THEN result("sp never")
        ELSE IF mode = "sp" /\ sp_strategy = "smart"
                /\ ~should_process_file(FilesAt(inputs, jobs, opt_input_path),
                                        "SUCCESSFUL", NoMeta)[1]
          THEN result("sp skipped")
        ELSE IF file_path \in inputs
                /\ ~should_process_file(FilesAt(inputs, jobs, file_path),
                                        overwrite, NoMeta)[1]
          THEN result("exists")
        ELSE IF templates = "no base template" THEN result("no base template")
        ELSE IF templates = "no molecule template" THEN result("no molecule section")
        ELSE result("written")

\* the return points of build_and_write_input_file
build_and_write_input_file(inputs, jobs, templates, sanitized, category, branch, species, calc_type, catalyst_name, mode, overwrite, sp_strategy) ==
    LET opt_params == IF mode = "sp"
                        THEN [method |-> sanitized.opt_method, basis |-> sanitized.opt_basis,
                              dispersion |-> sanitized.opt_dispersion,
                              solvent |-> sanitized.opt_solvent]
                        ELSE None
        opt_input_path == IF mode = "sp"
                            THEN build_file_path(sanitized.opt_method, sanitized.opt_basis,
                                     sanitized.opt_dispersion, sanitized.opt_solvent,
                                     category, branch, species, calc_type, catalyst_name,
                                     "opt", None)
                            ELSE None
        file_path == build_file_path(sanitized.method, sanitized.basis,
                         sanitized.dispersion, sanitized.solvent, category, branch,
                         species, calc_type, catalyst_name, mode, opt_params)
        opt_metadata == [Mode |-> "opt", Branch |-> branch]
        result(o) == [outcome |-> o, path |-> file_path]
    IN  IF mode = "sp" /\ sp_strategy = "never" THEN result("sp never")
        ELSE IF mode = "sp" /\ sp_strategy = "smart"
                /\ ~should_process_file(FilesAt(inputs, jobs, opt_input_path),
                                        "SUCCESSFUL", opt_metadata)[1]
          THEN result("sp skipped")
        ELSE IF file_path \in inputs
                /\ ~should_process_file(FilesAt(inputs, jobs, file_path),
                                        overwrite, NoMeta)[1]
          THEN result("exists")
        ELSE IF templates = "no base template" THEN result("no base template")
        ELSE IF templates = "no molecule template" THEN result("no molecule section")
        ELSE result("written")

(***************************************************************************)
(* Runs of process_input_files                                             *)
(***************************************************************************)
NoRun == [mode |-> "idle", overwrite |-> None, sp_strategy |-> None, config_manager |-> None]
NoCall == [outcome |-> "none", path |-> "", mode |-> None]
NoConfig == [methods |-> <<>>, catalysts |-> <<>>, reactants |-> <<>>, products |-> <<>>]

\* the builder at rest
BuilderIdle ==
    /\ processed_config = NoConfig
    /\ plan = <<>>
    /\ run = NoRun
    /\ pos = 1
    /\ processed_opt_files = {}
    /\ yielded = <<>>
    /\ earlier = [done |-> FALSE, items |-> <<>>]
    /\ last = NoCall
    /\ fsInputs = {}
    /\ fsJobs = [p \in {} |-> NoJob]
    /\ fsTemplates = "ok"

\* the status classifier at rest
StatusIdle ==
    /\ stFiles = CalcFiles(FALSE, NoFile, [exists |-> FALSE, markers |-> {}], FALSE)
    /\ stMeta = NoMeta
    /\ stResult = <<"", "">>

\* the extraction at rest
NoResult == [opt_data |-> <<>>, sp_data |-> <<>>]

ExtractIdle ==
    /\ exCriteria = None
    /\ method_combos = <<>>
    /\ combo_idx = 1
    /\ exStage = "idle"
    /\ input_files = <<>>
    /\ file_idx = 1
    /\ combo_result = NoResult
    /\ opt_content_cache = <<>>
    /\ all_results = <<>>
    /\ failed_combos = {}

\* the profile assembly at rest
ProfileIdle ==
    /\ raw_data_list = <<>>
    /\ pfLookup = <<>>
    /\ cat_idx = 1
    /\ profiles = <<>>
    /\ pfStage = "idle"

\* iter_input_paths(config_manager, system_dir): the call of
\* process_input_files(config, system_dir, mode="yield") made with a
\* ConfigManager (run_all_calculations, extract_and_export_all_combos)
YieldRun ==
    [mode |-> "yield", overwrite |-> None, sp_strategy |-> "smart",
     config_manager |-> "ConfigManager"]

\* the same call made with self.config_manager.processed_config, a dict
\* (WorkflowManager.run_calculations, WorkflowManager.check_status)
YieldRunDict == [YieldRun EXCEPT !.config_manager = "dict"]

SpStrategies == {"always", "smart", "never"}
OverwriteCriteria == {None, "all", "CRASH"}

\* generate_all_inputs(config_manager, system_dir, overwrite, sp_strategy)
GenerateRuns ==
    [mode : {"generate"}, overwrite : OverwriteCriteria, sp_strategy : SpStrategies,
     config_manager : {"ConfigManager"}]

\* the phases in which the builder runs: "enumerate" has every caller of
\* process_input_files, "generate" has generate_all_inputs only
BuildPhases == {"enumerate", "generate"}

RunsIn(p) ==
    IF p = "enumerate" THEN {YieldRun, YieldRunDict} \cup GenerateRuns ELSE GenerateRuns

\* a call of process_input_files: the generator is created
StartRun ==
    /\ phase \in BuildPhases
    /\ run = NoRun
    /\ \E r \in RunsIn(phase) : run' = r
    /\ pos' = 1
    /\ processed_opt_files' = {}
    /\ yielded' = <<>>
    /\ last' = NoCall
    /\ UNCHANGED <<pfVars, exVars, phase, stVars, processed_config, plan, earlier, fsVars>>

\* one call of process_file; create_file_metadata hands a truthy
\* config_manager to _get_reaction_components, whose call of
\* config_manager.get_builder_config() raises AttributeError on a dict
ProcessFile ==
    /\ phase \in BuildPhases
    /\ run # NoRun
    /\ pos <= Len(plan)
    /\ last.outcome # "AttributeError"
    /\ LET t == plan[pos]
           method == processed_config.methods[t.m]
           bs == method.basis_sets[t.b]
           returned(o) == [outcome |-> o, path |-> TaskPath(processed_config, t),
                           mode |-> t.file_mode]
       IN  IF t.file_mode = "sp" /\ ~(method.name.sp_enabled /\ bs.sp_enabled)
             THEN /\ last' = returned("sp not enabled")
                  /\ UNCHANGED <<processed_opt_files, yielded, fsInputs>>
           ELSE IF t.file_mode = "opt" /\ TaskOptKey(processed_config, t) \in processed_opt_files
             THEN /\ last' = returned("duplicate opt")
                  /\ UNCHANGED <<processed_opt_files, yielded, fsInputs>>
           ELSE /\ processed_opt_files' =
                      IF t.file_mode = "opt"
                        THEN processed_opt_files \cup {TaskOptKey(processed_config, t)}
                        ELSE processed_opt_files
                /\ IF run.config_manager = "dict"
                     THEN /\ last' = returned("AttributeError")
                          /\ UNCHANGED <<yielded, fsInputs>>
                   ELSE IF run.mode = "yield"
                     THEN /\ yielded' = Append(yielded, TaskItem(processed_config, t))
                          /\ last' = returned("yielded")
                          /\ UNCHANGED fsInputs
                     ELSE LET r == build_and_write_input_file(fsInputs, fsJobs, fsTemplates,
                                       get_common_values(method, bs, t.file_mode),
                                       t.category, t.branch, t.species, t.calc_type,
                                       t.catalyst_name, t.file_mode, run.overwrite,
                                       run.sp_strategy)
                          IN  /\ last' = returned(r.outcome)
                              /\ fsInputs' = IF r.outcome = "written"
                                               THEN fsInputs \cup {r.path} ELSE fsInputs
                              /\ UNCHANGED yielded
    /\ pos' = IF last'.outcome = "AttributeError" THEN pos ELSE pos + 1
    /\ UNCHANGED <<pfVars, exVars, phase, stVars, processed_config, plan, run, earlier, fsJobs, fsTemplates>>

\* the exception leaves the generator and the loop of the caller
AbortRun ==
    /\ phase \in BuildPhases
    /\ run # NoRun
    /\ last.outcome = "AttributeError"
    /\ run' = NoRun
    /\ UNCHANGED <<pfVars, exVars, phase, stVars, processed_config, plan, pos, processed_opt_files, yielded,
                   earlier, last, fsVars>>

\* the generator is exhausted
FinishRun ==
    /\ phase \in BuildPhases
    /\ run # NoRun
    /\ pos > Len(plan)
    /\ earlier' = IF run.mode = "yield" THEN [done |-> TRUE, items |-> yielded] ELSE earlier
    /\ run' = NoRun
    /\ UNCHANGED <<pfVars, exVars, phase, stVars, processed_config, plan, pos, processed_opt_files, yielded,
                   last, fsVars>>

\* a species entry of the YAML file
RawSpecies(name, include) == [name |-> name, include |-> include]

\* the methods sections the configurations are drawn from, each value absent,
\* single or [opt, sp]: optimisation only; with a single-point level; two
\* entries that differ in eda2 only; a basis set listed with and without a
\* single-point basis; two entries sharing the optimisation level; two
\* different optimisation levels; and two entries whose names join to the
\* same folder name
MethodLists ==
    LET Absent == <<"", None>>
        Single(v) == <<v, None>>
        RawMethod(name, dispersion, solvent, basis_sets, eda2) ==
            [name |-> name, dispersion |-> dispersion, solvent |-> solvent,
             basis_sets |-> basis_sets, eda2 |-> eda2]
        opt_only == RawMethod(Single("m1"), Absent, Absent, <<Single("b1")>>, 1)
        with_sp == RawMethod(<<"m1", "m2">>, Absent, <<"false", "smd">>, <<<<"b1", "b2">>>>, 1)
        with_sp2 == RawMethod(<<"m1", "m2">>, Absent, <<"false", "smd">>, <<<<"b1", "b2">>>>, 2)
        two_basis == RawMethod(<<"m1", "m2">>, Absent, Absent,
                               <<<<"b1*", "b2">>, Single("b1*")>>, 1)
        disp == RawMethod(<<"m1", "m2">>, <<"d3", "d3">>, Absent, <<<<"b1", "b2">>>>, 1)
        joined == RawMethod(Single("m1_d3"), Absent, Absent, <<Single("b1")>>, 1)
    IN  {<<opt_only>>, <<with_sp>>, <<with_sp, with_sp2>>, <<two_basis>>,
         <<opt_only, with_sp>>, <<with_sp, disp>>, <<disp, joined>>}

ReactantLists ==
    {<<RawSpecies("A", TRUE)>>,
     <<RawSpecies("A", TRUE), RawSpecies("B", TRUE)>>,
     <<RawSpecies("B", TRUE), RawSpecies("A", TRUE)>>,
     <<RawSpecies("A", TRUE), RawSpecies("B", FALSE)>>}

ProductLists ==
    {<<RawSpecies("P", TRUE)>>, <<RawSpecies("P", TRUE), RawSpecies("Q", TRUE)>>}

CatalystLists == {<<>>, <<RawSpecies("C", TRUE)>>}

RawConfigs ==
    [methods : MethodLists, catalysts : CatalystLists, reactants : ReactantLists,
     products : ProductLists]

\* a configuration small enough for the job files of every calculation to vary
SmallConfigs ==
    [methods : {m \in MethodLists : Len(m) = 1 /\ Len(m[1].basis_sets) = 1},
     catalysts : {<<>>}, reactants : {<<RawSpecies("A", TRUE)>>}, products : {<<>>}]

TemplateStates == {"ok", "no molecule template"}

\* the job files a calculation can have: none, a crash, a completed minimum
\* and a completed transition state
JobOutcomes ==
    LET text(m, o, i) == [EmptyText EXCEPT !.markers = m, !.opt = o, !.imag = i]
        job(out, err, sub) == [out |-> out, err |-> [exists |-> TRUE, markers |-> err],
                               sub |-> sub]
        done == {"Running on", "Thank you very much"}
    IN  {NoJob,
         job(text({"Running on"}, None, NoneInt), {"Error in Q-Chem run"}, FALSE),
         job(text(done, "OPTIMIZATION CONVERGED", 0), {}, FALSE),
         job(text(done, "TRANSITION STATE CONVERGED", 1), {}, FALSE)}

\* a job of an existing input file starts, ends or is cleaned up
JobOutcome ==
    /\ phase \in BuildPhases
    /\ \E p \in fsInputs, j \in JobOutcomes :
          fsJobs' = [q \in DOMAIN fsJobs \cup {p} |-> IF q = p THEN j ELSE fsJobs[q]]
    /\ UNCHANGED <<pfVars, exVars, phase, stVars, buildVars, fsInputs, fsTemplates>>

InitBuilder(ph, raws, templates) ==
    /\ phase = ph
    /\ StatusIdle
    /\ \E raw \in raws :
          /\ processed_config = process_config(raw)
          /\ plan = FileTasks(process_config(raw))
    /\ run = NoRun
    /\ pos = 1
    /\ processed_opt_files = {}
    /\ yielded = <<>>
    /\ earlier = [done |-> FALSE, items |-> <<>>]
    /\ last = NoCall
    /\ fsInputs = {}
    /\ fsJobs = [p \in {} |-> NoJob]
    /\ fsTemplates \in templates
    /\ ExtractIdle
    /\ ProfileIdle

\* the identities of every configuration, on a system directory without jobs
InitBuild == InitBuilder("enumerate", RawConfigs, {"ok"})
NextBuild == StartRun \/ ProcessFile \/ AbortRun \/ FinishRun
SpecBuild == InitBuild /\ [][NextBuild]_vars

\* input generation for a small configuration whose jobs run
InitGenerate == InitBuilder("generate", SmallConfigs, TemplateStates)
NextGenerate == StartRun \/ ProcessFile \/ FinishRun \/ JobOutcome
SpecGenerate == InitGenerate /\ [][NextGenerate]_vars

(***************************************************************************)
(* Result extraction (data_extractor.py)                                   *)
(*                                                                         *)
(* A result record is a Python dict: a function from its keys to values.   *)
(* Numbers are integers in model units; a text's `values` holds the first  *)
(* match of each pattern of PATTERNS that matches it.  An exception raised *)
(* by a function is the dict Raise(e) in place of its result.              *)
(***************************************************************************)
\* Constants.HARTREE_TO_KCALMOL, to the unit
HARTREE_TO_KCALMOL == 627
\* 1 / Constants.KJMOL_TO_HARTREE, to the unit
KJMOL_PER_HARTREE == 2626

Raise(e) == "<raise>" :> e
IsRaise(d) == "<raise>" \in DOMAIN d

\* d.get(k, default)
Get(d, k, default) == IF k \in DOMAIN d THEN d[k] ELSE default

\* unit_converter.convert_unit for the conversions the extraction asks for
convert_energy_unit(value, unit, target_unit) ==
    CASE unit = "Ha" /\ target_unit = "kcal/mol" -> value * HARTREE_TO_KCALMOL
      [] unit = "kJ/mol" /\ target_unit = "Ha" -> value \div KJMOL_PER_HARTREE
      [] unit = "kJ/mol" /\ target_unit = "kcal/mol" ->
            (value \div KJMOL_PER_HARTREE) * HARTREE_TO_KCALMOL
      [] unit = "cal/mol.K" /\ target_unit = "kcal/mol.K" -> value \div 1000
      [] unit = "kcal/mol" /\ target_unit = "Ha" -> value \div HARTREE_TO_KCALMOL
      [] OTHER -> value

\* get_value_with_fallback trying the fallback pattern first
get_value_with_fallback_FallbackFirst(content, primary_pattern, fallback_pattern) ==
    IF fallback_pattern \in DOMAIN content.values
      THEN ("value" :> content.values[fallback_pattern]) @@ ("fallback" :> TRUE)
    ELSE IF primary_pattern \in DOMAIN content.values
      THEN ("value" :> content.values[primary_pattern]) @@ ("fallback" :> FALSE)
    ELSE <<>>

\* the value of the primary pattern, else of the fallback pattern:
\* get_value_with_fallback as (value, fallback_used), or the empty dict
get_value_with_fallback(content, primary_pattern, fallback_pattern) ==
    IF primary_pattern \in DOMAIN content.values
      THEN ("value" :> content.values[primary_pattern]) @@ ("fallback" :> FALSE)
    ELSE IF fallback_pattern \in DOMAIN content.values
      THEN ("value" :> content.values[fallback_pattern]) @@ ("fallback" :> TRUE)
    ELSE <<>>

parse_energy(content) ==
    LET m == get_value_with_fallback(content, "final_energy", "final_energy_fallback")
    IN  IF DOMAIN m = {} THEN <<>>
        ELSE ("E (Ha)" :> m.value)
             @@ ("E (kcal/mol)" :> convert_energy_unit(m.value, "Ha", "kcal/mol"))
             @@ ("energy_fallback_used" :> m.fallback)

parse_enthalpy(content) ==
    LET m == get_value_with_fallback(content, "qrrho_total_enthalpy", "total_enthalpy_fallback")
    IN  IF DOMAIN m = {} THEN <<>>
        ELSE ("Total Enthalpy Corr. (kcal/mol)" :> m.value)
             @@ ("enthalpy_fallback_used" :> m.fallback)

parse_entropy(content) ==
    LET m == get_value_with_fallback(content, "qrrho_total_entropy", "total_entropy_fallback")
    IN  IF DOMAIN m = {} THEN <<>>
        ELSE ("Total Entropy Corr. (kcal/mol.K)" :>
                 convert_energy_unit(m.value, "cal/mol.K", "kcal/mol.K"))
             @@ ("entropy_fallback_used" :> m.fallback)

parse_thermodynamic_conditions(content) ==
    IF "thermodynamics" \in DOMAIN content.values
      THEN "Temperature (K)" :> content.values["thermodynamics"]
      ELSE <<>>

\* the parsers whose result is one captured number under one key
parse_eda_polarized_energy(content) ==
    IF "eda_polarized" \in DOMAIN content.values
      THEN "polarized_energy" :> content.values["eda_polarized"] ELSE <<>>

parse_eda_convergence_energy(content) ==
    IF "eda_convergence" \in DOMAIN content.values
      THEN "convergence_energy" :> content.values["eda_convergence"] ELSE <<>>

parse_bsse_energy(content) ==
    IF "bsse" \in DOMAIN content.values
      THEN "bsse_energy" :> content.values["bsse"] ELSE <<>>

\* the last match of each SMD pattern, under the keys _extract_smd_cds_energy reads
parse_smd_cds_raw_values(content) ==
    LET key(pattern) == CASE pattern = "smd_g_s" -> "g_s_final"
                          [] pattern = "smd_g_enp" -> "g_enp_final"
                          [] pattern = "smd_cds_summary" -> "cds_summary_final"
                          [] pattern = "smd_cds_sp_total" -> "cds_sp_total_final"
        found == DOMAIN content.values
                 \cap {"smd_g_s", "smd_g_enp", "smd_cds_summary", "smd_cds_sp_total"}
    IN  [k \in {key(q) : q \in found} |->
            content.values[CHOOSE q \in found : key(q) = k]]

\* _calculate_derived_values of qchem_result_parser.py, which starts from the
\* CDS energy or from E and never from the single-point energy
calculate_derived_values_OptEnergy(data) ==
    LET base_energy_key == IF "CDS Energy (kcal/mol)" \in DOMAIN data
                             THEN "CDS Energy (kcal/mol)" ELSE "E (kcal/mol)"
        hasH == base_energy_key \in DOMAIN data
                /\ "Total Enthalpy Corr. (kcal/mol)" \in DOMAIN data
        withH == IF hasH
                   THEN ("H (kcal/mol)" :>
                            data[base_energy_key] + data["Total Enthalpy Corr. (kcal/mol)"])
                        @@ data
                   ELSE data
    IN  IF hasH /\ data[base_energy_key] = NoneInt THEN Raise("TypeError")
        ELSE IF {"H (kcal/mol)", "Temperature (K)", "Total Entropy Corr. (kcal/mol.K)"}
                  \subseteq DOMAIN withH
          THEN ("G (kcal/mol)" :>
                   withH["H (kcal/mol)"]
                   - withH["Temperature (K)"] * withH["Total Entropy Corr. (kcal/mol.K)"])
               @@ withH
        ELSE withH

\* _calculate_derived_values: the dict with H and G added; None + float raises
calculate_derived_values(data) ==
    LET base_energy_key == IF "SP_E (kcal/mol)" \in DOMAIN data
                             THEN "SP_E (kcal/mol)" ELSE "E (kcal/mol)"
        hasH == base_energy_key \in DOMAIN data
                /\ "Total Enthalpy Corr. (kcal/mol)" \in DOMAIN data
        withH == IF hasH
                   THEN ("H (kcal/mol)" :>
                            data[base_energy_key] + data["Total Enthalpy Corr. (kcal/mol)"])
                        @@ data
                   ELSE data
    IN  IF hasH /\ data[base_energy_key] = NoneInt THEN Raise("TypeError")
        ELSE IF {"H (kcal/mol)", "Temperature (K)", "Total Entropy Corr. (kcal/mol.K)"}
                  \subseteq DOMAIN withH
          THEN ("G (kcal/mol)" :>
                   withH["H (kcal/mol)"]
                   - withH["Temperature (K)"] * withH["Total Entropy Corr. (kcal/mol.K)"])
               @@ withH
        ELSE withH

\* _extract_opt_thermodynamic_data; the QRRHO parameters and the zero-point
\* energy, which nothing else reads, are left out of the record
extract_opt_thermodynamic_data(content) ==
    LET energy_data == parse_energy(content)
        enthalpy == parse_enthalpy(content)
        entropy == parse_entropy(content)
        status == IF parse_optimization_status(content) # None
                    THEN "Optimization Status" :> parse_optimization_status(content)
                    ELSE <<>>
        imag == IF parse_imaginary_frequencies(content) # NoneInt
                  THEN "Imaginary Frequencies" :> parse_imaginary_frequencies(content)
                  ELSE <<>>
        data == imag @@ parse_thermodynamic_conditions(content) @@ status
                @@ entropy @@ enthalpy @@ energy_data
        fallback_used == \/ energy_data.energy_fallback_used
                         \/ Get(enthalpy, "enthalpy_fallback_used", FALSE)
                         \/ Get(entropy, "entropy_fallback_used", FALSE)
    IN  IF DOMAIN energy_data = {} THEN <<>>
        ELSE ("Fallback Used" :> IF fallback_used THEN "Yes" ELSE "No")
             @@ calculate_derived_values(data)

\* abs(a - b)
AbsDiff(a, b) == IF a >= b THEN a - b ELSE b - a

\* _extract_smd_cds_energy giving up, with None, when a validation fails
extract_smd_cds_energy_Strict(opt_content, sp_content) ==
    LET opt_raw_data == IF Truthy(opt_content)
                          THEN parse_smd_cds_raw_values(opt_content) ELSE <<>>
        components == {"g_s_final", "g_enp_final"} \subseteq DOMAIN opt_raw_data
        summary == "cds_summary_final" \in DOMAIN opt_raw_data
        cds_hartree == opt_raw_data.g_s_final - opt_raw_data.g_enp_final
        primary_value == IF components
                           THEN convert_energy_unit(cds_hartree, "Ha", "kcal/mol")
                         ELSE IF summary THEN opt_raw_data.cds_summary_final
                         ELSE NoneInt
        sp_raw_data == IF Truthy(sp_content) /\ primary_value # NoneInt
                         THEN parse_smd_cds_raw_values(sp_content) ELSE <<>>
        validation_info ==
            (IF components /\ summary
               THEN ("opt_summary_match" :> (primary_value = opt_raw_data.cds_summary_final))
                    @@ ("opt_summary_diff" :> AbsDiff(primary_value, opt_raw_data.cds_summary_final))
               ELSE <<>>)
            @@ (IF "cds_sp_total_final" \in DOMAIN sp_raw_data
                  THEN ("sp_total_match" :> (primary_value = sp_raw_data.cds_sp_total_final))
                       @@ ("sp_total_diff" :> AbsDiff(primary_value, sp_raw_data.cds_sp_total_final))
                  ELSE <<>>)
    IN  IF primary_value = NoneInt THEN <<>>
        ELSE IF \E k \in {"opt_summary_match", "sp_total_match"} :
                   k \in DOMAIN validation_info /\ ~validation_info[k] THEN <<>>
        ELSE IF ~components THEN Raise("UnboundLocalError")
        ELSE validation_info @@ ("G_CDS (Ha)" :> cds_hartree)
             @@ ("G_CDS (kcal/mol)" :> primary_value)

\* _extract_smd_cds_energy; the two tolerances are below one model unit
extract_smd_cds_energy(opt_content, sp_content) ==
    LET opt_raw_data == IF Truthy(opt_content)
                          THEN parse_smd_cds_raw_values(opt_content) ELSE <<>>
        components == {"g_s_final", "g_enp_final"} \subseteq DOMAIN opt_raw_data
        summary == "cds_summary_final" \in DOMAIN opt_raw_data
        cds_hartree == opt_raw_data.g_s_final - opt_raw_data.g_enp_final
        primary_value == IF components
                           THEN convert_energy_unit(cds_hartree, "Ha", "kcal/mol")
                         ELSE IF summary THEN opt_raw_data.cds_summary_final
                         ELSE NoneInt
        sp_raw_data == IF Truthy(sp_content) /\ primary_value # NoneInt
                         THEN parse_smd_cds_raw_values(sp_content) ELSE <<>>
        validation_info ==
            (IF components /\ summary
               THEN ("opt_summary_match" :> (primary_value = opt_raw_data.cds_summary_final))
                    @@ ("opt_summary_diff" :> AbsDiff(primary_value, opt_raw_data.cds_summary_final))
               ELSE <<>>)
            @@ (IF "cds_sp_total_final" \in DOMAIN sp_raw_data
                  THEN ("sp_total_match" :> (primary_value = sp_raw_data.cds_sp_total_final))
                       @@ ("sp_total_diff" :> AbsDiff(primary_value, sp_raw_data.cds_sp_total_final))
                  ELSE <<>>)
    IN  IF primary_value = NoneInt THEN <<>>
        ELSE IF ~components THEN Raise("UnboundLocalError")
        ELSE validation_info @@ ("G_CDS (Ha)" :> cds_hartree)
             @@ ("G_CDS (kcal/mol)" :> primary_value)

\* metadata.get("SP_Solvent", "gas").lower() != "gas"
UsesSolvent(metadata) == LowerOf(metadata.SP_Solvent) # "gas"

\* _extract_eda_sp_energy applying the BSSE correction to every variant
extract_eda_sp_energy_BsseAlways(sp_content, eda_type, metadata) ==
    LET polarized_data == parse_eda_polarized_energy(sp_content)
        convergence_data == parse_eda_convergence_energy(sp_content)
        base_energy_ha ==
            IF eda_type \in {"frz", "pol"}
              THEN Get(polarized_data, "polarized_energy", NoneInt)
            ELSE IF eda_type = "full"
              THEN Get(convergence_data, "convergence_energy", NoneInt)
            ELSE NoneInt
        reason == IF eda_type \in {"frz", "pol"}
                    THEN (IF base_energy_ha # NoneInt THEN "polarized_energy_"
                          ELSE "no_polarized_energy_") \o eda_type
                  ELSE IF eda_type = "full"
                    THEN IF base_energy_ha # NoneInt THEN "convergence_no_bsse_full"
                         ELSE "no_convergence_full"
                  ELSE "unknown_eda_type_" \o eda_type
        base_energy_kcal == convert_energy_unit(base_energy_ha, "Ha", "kcal/mol")
        cds_data == IF UsesSolvent(metadata)
                      THEN extract_smd_cds_energy(EmptyText, sp_content) ELSE <<>>
        cds == DOMAIN cds_data # {}
        bsse_data == parse_bsse_energy(sp_content)
        bsse == DOMAIN bsse_data # {}
        bsse_ha == convert_energy_unit(bsse_data.bsse_energy, "kJ/mol", "Ha")
        bsse_kcal == convert_energy_unit(bsse_data.bsse_energy, "kJ/mol", "kcal/mol")
    IN  IF base_energy_ha = NoneInt
          THEN [k \in {"SP_E_base (Ha)", "SP_E_base (kcal/mol)", "SP_E (Ha)",
                       "SP_E (kcal/mol)"} |-> NoneInt]
               @@ ("SP_Fallback Used" :> reason)
        ELSE IF IsRaise(cds_data) THEN cds_data
        ELSE ("SP_E (Ha)" :> base_energy_ha
                  + (IF cds THEN cds_data["G_CDS (Ha)"] ELSE 0)
                  + (IF bsse THEN bsse_ha ELSE 0))
             @@ ("SP_E (kcal/mol)" :> base_energy_kcal
                  + (IF cds THEN cds_data["G_CDS (kcal/mol)"] ELSE 0)
                  + (IF bsse THEN bsse_kcal ELSE 0))
             @@ ("SP_Fallback Used" :> IF bsse THEN "convergence_bsse_full" ELSE reason)
             @@ (IF bsse THEN ("SP_BSSE (kJ/mol)" :> bsse_data.bsse_energy)
                              @@ ("SP_BSSE (kcal/mol)" :> bsse_kcal)
                              @@ ("SP_BSSE (Ha)" :> bsse_ha)
                 ELSE <<>>)
             @@ (IF cds THEN ("SP_CDS (Ha)" :> cds_data["G_CDS (Ha)"])
                             @@ ("SP_CDS (kcal/mol)" :> cds_data["G_CDS (kcal/mol)"])
                 ELSE <<>>)
             @@ ("SP_E_base (Ha)" :> base_energy_ha)
             @@ ("SP_E_base (kcal/mol)" :> base_energy_kcal)

\* _extract_eda_sp_energy
extract_eda_sp_energy(sp_content, eda_type, metadata) ==
    LET polarized_data == parse_eda_polarized_energy(sp_content)
        convergence_data == parse_eda_convergence_energy(sp_content)
        base_energy_ha ==
            IF eda_type \in {"frz", "pol"}
              THEN Get(polarized_data, "polarized_energy", NoneInt)
            ELSE IF eda_type = "full"
              THEN Get(convergence_data, "convergence_energy", NoneInt)
            ELSE NoneInt
        reason == IF eda_type \in {"frz", "pol"}
                    THEN (IF base_energy_ha # NoneInt THEN "polarized_energy_"
                          ELSE "no_polarized_energy_") \o eda_type
                  ELSE IF eda_type = "full"
                    THEN IF base_energy_ha # NoneInt THEN "convergence_no_bsse_full"
                         ELSE "no_convergence_full"
                  ELSE "unknown_eda_type_" \o eda_type
        base_energy_kcal == convert_energy_unit(base_energy_ha, "Ha", "kcal/mol")
        cds_data == IF UsesSolvent(metadata)
                      THEN extract_smd_cds_energy(EmptyText, sp_content) ELSE <<>>
        cds == DOMAIN cds_data # {}
        bsse_data == IF eda_type = "full" THEN parse_bsse_energy(sp_content) ELSE <<>>
        bsse == DOMAIN bsse_data # {}
        bsse_ha == convert_energy_unit(bsse_data.bsse_energy, "kJ/mol", "Ha")
        bsse_kcal == convert_energy_unit(bsse_data.bsse_energy, "kJ/mol", "kcal/mol")
    IN  IF base_energy_ha = NoneInt
          THEN [k \in {"SP_E_base (Ha)", "SP_E_base (kcal/mol)", "SP_E (Ha)",
                       "SP_E (kcal/mol)"} |-> NoneInt]
               @@ ("SP_Fallback Used" :> reason)
        ELSE IF IsRaise(cds_data) THEN cds_data
        ELSE ("SP_E (Ha)" :> base_energy_ha
                  + (IF cds THEN cds_data["G_CDS (Ha)"] ELSE 0)
                  + (IF bsse THEN bsse_ha ELSE 0))
             @@ ("SP_E (kcal/mol)" :> base_energy_kcal
                  + (IF cds THEN cds_data["G_CDS (kcal/mol)"] ELSE 0)
                  + (IF bsse THEN bsse_kcal ELSE 0))
             @@ ("SP_Fallback Used" :> IF bsse THEN "convergence_bsse_full" ELSE reason)
             @@ (IF bsse THEN ("SP_BSSE (kJ/mol)" :> bsse_data.bsse_energy)
                              @@ ("SP_BSSE (kcal/mol)" :> bsse_kcal)
                              @@ ("SP_BSSE (Ha)" :> bsse_ha)
                 ELSE <<>>)
             @@ (IF cds THEN ("SP_CDS (Ha)" :> cds_data["G_CDS (Ha)"])
                             @@ ("SP_CDS (kcal/mol)" :> cds_data["G_CDS (kcal/mol)"])
                 ELSE <<>>)
             @@ ("SP_E_base (Ha)" :> base_energy_ha)
             @@ ("SP_E_base (kcal/mol)" :> base_energy_kcal)

\* _extract_sp_thermodynamic_data; eda2 is the number of the configuration,
\* which never equals the string "0"
extract_sp_thermodynamic_data(sp_content, metadata, opt_content) ==
    LET calc_type == metadata.Calc_Type
        is_eda == calc_type \in {"full_cat", "pol_cat", "frz_cat"}
        eda_type == CASE calc_type = "frz_cat" -> "frz"
                      [] calc_type = "pol_cat" -> "pol"
                      [] calc_type = "full_cat" -> "full"
                      [] OTHER -> "unknown"
        energy_data == parse_energy(sp_content)
        cds_data == IF UsesSolvent(metadata)
                      THEN extract_smd_cds_energy(opt_content, sp_content) ELSE <<>>
        cds == DOMAIN cds_data # {}
    IN  IF is_eda THEN extract_eda_sp_energy(sp_content, eda_type, metadata)
        ELSE IF DOMAIN energy_data = {} THEN <<>>
        ELSE IF IsRaise(cds_data) THEN cds_data
        ELSE ("SP_E (Ha)" :> energy_data["E (Ha)"]
                  + (IF cds THEN cds_data["G_CDS (Ha)"] ELSE 0))
             @@ ("SP_E (kcal/mol)" :> energy_data["E (kcal/mol)"]
                  + (IF cds THEN cds_data["G_CDS (kcal/mol)"] ELSE 0))
             @@ ("SP_Fallback Used" :>
                    IF energy_data.energy_fallback_used THEN "Yes" ELSE "No")
             @@ cds_data

\* apply_thermodynamic_corrections: the record with the corrections of the
\* optimisation text and the derived values
apply_thermodynamic_corrections(data, opt_content) ==
    LET corrections == parse_thermodynamic_conditions(opt_content)
                       @@ parse_entropy(opt_content) @@ parse_enthalpy(opt_content)
    IN  IF DOMAIN corrections # {}
          THEN calculate_derived_values(corrections @@ data)
          ELSE data

\* extract_opt_data: the record, the empty dict for None
extract_opt_data(files, metadata, criteria) ==
    LET content == read_text(files.out)
        thermo_data == extract_opt_thermodynamic_data(content)
    IN  IF ~should_process_file(files, criteria, NoMeta)[1] THEN <<>>
        ELSE IF ~Truthy(content) THEN <<>>
        ELSE IF DOMAIN thermo_data = {} THEN <<>>
        ELSE thermo_data @@ metadata

\* extract_sp_data: the record, the empty dict for None, or Raise(e)
extract_sp_data(files, metadata, criteria, opt_content) ==
    LET sp_content == read_text(files.out)
        record(thermo_data) ==
            IF DOMAIN thermo_data = {} THEN <<>>
            ELSE IF IsRaise(thermo_data) THEN thermo_data
            ELSE IF Truthy(opt_content)
              THEN apply_thermodynamic_corrections(thermo_data @@ metadata, opt_content)
            ELSE thermo_data @@ metadata
    IN  IF ~should_process_file(files, criteria, NoMeta)[1] THEN <<>>
        ELSE IF ~Truthy(sp_content) THEN <<>>
        ELSE record(extract_sp_thermodynamic_data(sp_content, metadata, opt_content))

(***************************************************************************)
(* Extraction of a system directory (extract_and_export_all_combos)        *)
(***************************************************************************)
\* iter_input_paths(config_manager, system_dir, include_metadata=True): the
\* items one yield-mode run of process_input_files yields, in order
RECURSIVE IterInputPaths(_, _, _)
IterInputPaths(config, tasks, seen) ==
    IF Len(tasks) = 0 THEN <<>>
    ELSE LET t == Head(tasks)
             method == config.methods[t.m]
             bs == method.basis_sets[t.b]
         IN  IF t.file_mode = "sp" /\ ~(method.name.sp_enabled /\ bs.sp_enabled)
               THEN IterInputPaths(config, Tail(tasks), seen)
             ELSE IF t.file_mode = "opt" /\ TaskOptKey(config, t) \in seen
               THEN IterInputPaths(config, Tail(tasks), seen)
             ELSE <<TaskItem(config, t)>>
                  \o IterInputPaths(config, Tail(tasks),
                         IF t.file_mode = "opt" THEN seen \cup {TaskOptKey(config, t)}
                         ELSE seen)

iter_input_paths(config) == IterInputPaths(config, FileTasks(config), {})

\* a < b for str; Alphabet has the characters of the folder names in code
\* point order
RECURSIVE StrLess(_, _)
StrLess(a, b) ==
    LET Alphabet == "*-0123456789_abcdefghijklmnopqrstuvwxyz"
        Ord(c) == CHOOSE i \in 1..Len(Alphabet) : SubSeq(Alphabet, i, i) = c
    IN  IF b = "" THEN FALSE
        ELSE IF a = "" THEN TRUE
        ELSE IF SubSeq(a, 1, 1) = SubSeq(b, 1, 1)
          THEN StrLess(SubSeq(a, 2, Len(a)), SubSeq(b, 2, Len(b)))
        ELSE Ord(SubSeq(a, 1, 1)) < Ord(SubSeq(b, 1, 1))

\* sorted(names)
RECURSIVE Sorted(_)
Sorted(names) ==
    IF names = {} THEN <<>>
    ELSE LET least == CHOOSE n \in names : \A o \in names \ {n} : StrLess(n, o)
         IN  <<least>> \o Sorted(names \ {least})

\* [x for x in items if keep(x)]
RECURSIVE SelectItems(_, _, _)
SelectItems(items, key, value) ==
    IF Len(items) = 0 THEN <<>>
    ELSE (IF Head(items).metadata[key] = value THEN <<Head(items)>> ELSE <<>>)
         \o SelectItems(Tail(items), key, value)

opt_files == SelectItems(input_files, "Mode", "opt")
sp_files == SelectItems(input_files, "Mode", "sp")

\* extract_and_export_method_combo(combo_name) begins: the input files of the
\* combo are listed, or the run ends after the last combo
StartCombo ==
    /\ phase = "extract"
    /\ exStage = "combo"
    /\ IF combo_idx > Len(method_combos)
         THEN /\ exStage' = "finished"
              /\ UNCHANGED <<input_files, file_idx, combo_result, opt_content_cache>>
         ELSE /\ input_files' = SelectItems(iter_input_paths(processed_config),
                                            "Method_Combo", method_combos[combo_idx])
              /\ file_idx' = 1
              /\ combo_result' = NoResult
              /\ opt_content_cache' = <<>>
              /\ exStage' = "opt"
    /\ UNCHANGED <<pfVars, phase, stVars, buildVars, fsVars, exCriteria, method_combos, combo_idx,
                   all_results, failed_combos>>

\* the body of the loop over opt_files: result and opt_content_cache after it
OptIteration(result, cache, item, files, criteria) ==
    LET opt_data == extract_opt_data(files, item.metadata, criteria)
        opt_content == read_text(files.out)
        added == should_process_file(files, criteria, NoMeta)[1] /\ DOMAIN opt_data # {}
    IN  [result |-> IF added THEN [result EXCEPT !.opt_data = Append(@, opt_data)]
                    ELSE result,
         cache |-> IF added /\ Truthy(opt_content)
                     THEN (item.metadata.Species :> opt_content) @@ cache
                     ELSE cache]

\* one iteration of the loop over opt_files
ExtractOpt ==
    /\ phase = "extract"
    /\ exStage = "opt"
    /\ file_idx <= Len(opt_files)
    /\ LET after == OptIteration(combo_result, opt_content_cache, opt_files[file_idx],
                        FilesAt(fsInputs, fsJobs, opt_files[file_idx].path), exCriteria)
       IN  /\ combo_result' = after.result
           /\ opt_content_cache' = after.cache
    /\ IF file_idx < Len(opt_files)
         THEN /\ file_idx' = file_idx + 1
              /\ UNCHANGED exStage
         ELSE /\ file_idx' = 1
              /\ exStage' = IF Len(sp_files) > 0 THEN "sp" ELSE "export"
    /\ UNCHANGED <<pfVars, phase, stVars, buildVars, fsVars, exCriteria, method_combos, combo_idx,
                   input_files, all_results, failed_combos>>

\* the body of the loop over sp_files: result after it, or Raise(e)
SpIteration(result, cache, item, files, criteria) ==
    LET opt_content == Get(cache, item.metadata.Species, EmptyText)
        append(sp_data) ==
            IF IsRaise(sp_data) THEN sp_data
            ELSE IF DOMAIN sp_data # {} THEN [result EXCEPT !.sp_data = Append(@, sp_data)]
            ELSE result
    IN  append(IF should_process_file(files, criteria, NoMeta)[1]
                 THEN extract_sp_data(files, item.metadata, criteria, opt_content)
                 ELSE <<>>)

\* one iteration of the loop over sp_files; an exception leaves
\* extract_method_combo_data and extract_and_export_method_combo and is caught
\* by the loop over the combos
ExtractSp ==
    /\ phase = "extract"
    /\ exStage = "sp"
    /\ file_idx <= Len(sp_files)
    /\ \E after \in {SpIteration(combo_result, opt_content_cache, sp_files[file_idx],
                        FilesAt(fsInputs, fsJobs, sp_files[file_idx].path), exCriteria)} :
           IF IsRaise(after)
             THEN /\ failed_combos' = failed_combos \cup {method_combos[combo_idx]}
                  /\ combo_idx' = combo_idx + 1
                  /\ exStage' = "combo"
                  /\ UNCHANGED <<combo_result, file_idx>>
             ELSE /\ combo_result' = after
                  /\ IF file_idx < Len(sp_files)
                       THEN /\ file_idx' = file_idx + 1
                            /\ UNCHANGED exStage
                       ELSE /\ file_idx' = 1
                            /\ exStage' = "export"
                  /\ UNCHANGED <<failed_combos, combo_idx>>
    /\ UNCHANGED <<pfVars, phase, stVars, buildVars, fsVars, exCriteria, method_combos, input_files,
                   opt_content_cache, all_results>>

\* extract_method_combo_data has returned: if any(combo_data.values()) the
\* records go to write_opt_csv and write_sp_csv; the loop over the combos
\* goes on
ExportCombo ==
    /\ phase = "extract"
    /\ exStage = "export"
    /\ all_results' = IF Len(combo_result.opt_data) > 0 \/ Len(combo_result.sp_data) > 0
                        THEN (method_combos[combo_idx] :> combo_result) @@ all_results
                        ELSE all_results
    /\ combo_idx' = combo_idx + 1
    /\ exStage' = "combo"
    /\ UNCHANGED <<pfVars, phase, stVars, buildVars, fsVars, exCriteria, method_combos, input_files,
                   file_idx, combo_result, opt_content_cache, failed_combos>>

\* --extract [criteria]: the default
ExtractCriteria == {"SUCCESSFUL"}

\* method_combos.keys()
MethodCombosOf(items) == {items[i].metadata.Method_Combo : i \in 1..Len(items)}

\* extract_and_export_all_combos(config_manager, system_dir, output_dir,
\* criteria) begins: the method combos are discovered
StartExtraction ==
    /\ phase = "extract"
    /\ exStage = "idle"
    /\ \E c \in ExtractCriteria : exCriteria' = c
    /\ method_combos' = Sorted(MethodCombosOf(iter_input_paths(processed_config)))
    /\ combo_idx' = 1
    /\ exStage' = "combo"
    /\ UNCHANGED <<pfVars, phase, stVars, buildVars, fsVars, input_files, file_idx, combo_result,
                   opt_content_cache, all_results, failed_combos>>

\* the configuration of the extracted system: two method entries with a
\* single-point level, one with an SMD single point, one reactant, one
\* catalyst, no product
ExtractConfig ==
    LET raw == CHOOSE r \in RawConfigs :
                  /\ Len(r.methods) = 2
                  /\ r.methods[1].solvent = <<"false", "smd">>
                  /\ r.methods[2].dispersion = <<"d3", "d3">>
                  /\ r.catalysts = <<RawSpecies("C", TRUE)>>
                  /\ r.reactants = <<RawSpecies("A", TRUE)>>
    IN  process_config([raw EXCEPT !.products = <<>>])

\* its input files
ExtractItems == iter_input_paths(ExtractConfig)

\* the job files of a completed calculation whose output has the convergence
\* line, the count of imaginary frequencies and the numbers given
FinishedJob(opt, imag, values) ==
    [out |-> [EmptyText EXCEPT !.markers = {"Running on", "Thank you very much"},
                               !.opt = opt, !.imag = imag, !.values = values],
     err |-> [exists |-> TRUE, markers |-> {}], sub |-> FALSE]

CrashedJob ==
    [out |-> [EmptyText EXCEPT !.markers = {"Running on"}],
     err |-> [exists |-> TRUE, markers |-> {"Error in Q-Chem run"}], sub |-> FALSE]

\* the numbers of a frequency job: energy (Ha), enthalpy correction
\* (kcal/mol), entropy correction (cal/mol.K) and temperature (K)
Thermo ==
    ("final_energy" :> (0 - 10)) @@ ("qrrho_total_enthalpy" :> 5)
    @@ ("qrrho_total_entropy" :> 2000) @@ ("thermodynamics" :> 298)

\* the numbers of a single point with its EDA and BSSE lines
SpNumbers ==
    ("final_energy" :> (0 - 20)) @@ ("eda_polarized" :> (0 - 21))
    @@ ("eda_convergence" :> (0 - 22)) @@ ("bsse" :> 2626)

\* the job files an optimisation can have: none; a crash; a minimum; a
\* transition state; no frequency job; no energy line; the fallback energy
\* line only; the SMD summary line only; the SMD component lines; both
\* energy lines, with different numbers; the fallback enthalpy line; the SMD
\* component lines with a summary line that disagrees
OptJobs ==
    {NoJob, CrashedJob,
     FinishedJob("OPTIMIZATION CONVERGED", 0, Thermo),
     FinishedJob("TRANSITION STATE CONVERGED", 1, Thermo),
     FinishedJob("OPTIMIZATION CONVERGED", 0, "final_energy" :> (0 - 10)),
     FinishedJob("OPTIMIZATION CONVERGED", 0, "qrrho_total_enthalpy" :> 5),
     FinishedJob("OPTIMIZATION CONVERGED", 0,
                 ("final_energy_fallback" :> (0 - 10)) @@ ("thermodynamics" :> 298)),
     FinishedJob("OPTIMIZATION CONVERGED", 0, Thermo @@ ("smd_cds_summary" :> 3)),
     FinishedJob("OPTIMIZATION CONVERGED", 0,
                 Thermo @@ ("smd_g_s" :> (0 - 9)) @@ ("smd_g_enp" :> (0 - 10))
                 @@ ("smd_cds_summary" :> 627)),
     FinishedJob("OPTIMIZATION CONVERGED", 0,
                 Thermo @@ ("final_energy_fallback" :> (0 - 11))),
     FinishedJob("OPTIMIZATION CONVERGED", 0,
                 ("final_energy" :> (0 - 10)) @@ ("total_enthalpy_fallback" :> 5)
                 @@ ("thermodynamics" :> 298)),
     FinishedJob("OPTIMIZATION CONVERGED", 0,
                 Thermo @@ ("smd_g_s" :> (0 - 9)) @@ ("smd_g_enp" :> (0 - 10))
                 @@ ("smd_cds_summary" :> 3))}

\* the job files a single point can have: none; a crash; every line; the
\* SMD total in place of the BSSE line; no EDA line; no energy line; no
\* number at all; the fallback energy line only; an SMD total that disagrees
SpJobs ==
    {NoJob, CrashedJob,
     FinishedJob(None, NoneInt, SpNumbers),
     FinishedJob(None, NoneInt,
                 ("final_energy" :> (0 - 20)) @@ ("eda_polarized" :> (0 - 21))
                 @@ ("eda_convergence" :> (0 - 22)) @@ ("smd_cds_sp_total" :> 627)),
     FinishedJob(None, NoneInt, "final_energy" :> (0 - 20)),
     FinishedJob(None, NoneInt,
                 ("eda_polarized" :> (0 - 21)) @@ ("eda_convergence" :> (0 - 22))),
     FinishedJob(None, NoneInt, <<>>),
     FinishedJob(None, NoneInt, "final_energy_fallback" :> (0 - 20)),
     FinishedJob(None, NoneInt, SpNumbers @@ ("smd_cds_sp_total" :> 5))}

\* every job of the system ran as intended
GoodJobs ==
    [p \in {ExtractItems[i].path : i \in 1..Len(ExtractItems)} |->
        LET metadata == ExtractItems[CHOOSE i \in 1..Len(ExtractItems) :
                                         ExtractItems[i].path = p].metadata
        IN  IF metadata.Mode = "sp" THEN FinishedJob(None, NoneInt, SpNumbers)
            ELSE IF metadata.Branch = "ts"
              THEN FinishedJob("TRANSITION STATE CONVERGED", 1, Thermo)
            ELSE FinishedJob("OPTIMIZATION CONVERGED", 0, Thermo)]

\* the optimisation a single point was computed on
OptItemOf(s) ==
    CHOOSE i \in 1..Len(ExtractItems) :
        /\ ExtractItems[i].metadata.Mode = "opt"
        /\ \A k \in {"Method_Combo", "Category", "Branch", "Species", "Calc_Type", "Catalyst"} :
              ExtractItems[i].metadata[k] = ExtractItems[s].metadata[k]

\* a system directory in which every input file exists and every job ran as
\* intended, except for one single point and its optimisation
InitExtractOf(opt_jobs, sp_jobs) ==
    /\ phase = "extract"
    /\ StatusIdle
    /\ ExtractIdle
    /\ ProfileIdle
    /\ plan = <<>>
    /\ run = NoRun
    /\ pos = 1
    /\ processed_opt_files = {}
    /\ yielded = <<>>
    /\ earlier = [done |-> FALSE, items |-> <<>>]
    /\ last = NoCall
    /\ fsTemplates = "ok"
    /\ processed_config = ExtractConfig
    /\ fsInputs = DOMAIN GoodJobs
    /\ \E s \in {i \in 1..Len(ExtractItems) : ExtractItems[i].metadata.Mode = "sp"},
          opt_job \in opt_jobs, sp_job \in sp_jobs :
          fsJobs = [GoodJobs EXCEPT ![ExtractItems[s].path] = sp_job,
                                    ![ExtractItems[OptItemOf(s)].path] = opt_job]

InitExtract == InitExtractOf(OptJobs, SpJobs)

NextExtract == StartExtraction \/ StartCombo \/ ExtractOpt \/ ExtractSp \/ ExportCombo

SpecExtract == InitExtract /\ [][NextExtract]_vars

(***************************************************************************)
(* Profile assembly (profile_extractor_functional.py)                      *)
(***************************************************************************)
\* _get_components
get_components(raw_data) ==
    IF Len(raw_data) = 0
      THEN [all_reactants |-> <<>>, all_products |-> <<>>, all_catalysts |-> <<>>]
      ELSE [all_reactants |-> Get(raw_data[1], "all_reactants", <<>>),
            all_products |-> Get(raw_data[1], "all_products", <<>>),
            all_catalysts |-> Get(raw_data[1], "all_catalysts", <<>>)]

\* _build_energy_lookup, from the lookup built by the records before
RECURSIVE build_energy_lookup(_, _)
build_energy_lookup(raw_data, lookup) ==
    IF Len(raw_data) = 0 THEN lookup
    ELSE LET data == Head(raw_data)
             species == Get(data, "Species", "")
             e == Get(data, "E (kcal/mol)", NoneInt)
             e_val == IF e # NoneInt /\ e # 0 THEN e
                      ELSE Get(data, "SP_E (kcal/mol)", NoneInt)
             energy == [E |-> e_val, G |-> Get(data, "G (kcal/mol)", NoneInt)]
             calc_type == Get(data, "Calc_Type", "")
         IN  build_energy_lookup(Tail(raw_data),
                 IF species = "" \/ e_val = NoneInt THEN lookup
                 ELSE (species :> energy)
                      @@ (IF calc_type \notin {"", "unknown"}
                            THEN (species \o "_" \o calc_type) :> energy ELSE <<>>)
                      @@ lookup)

\* _get_energy: the entry, or the empty dict for None
get_energy(species, lookup, calc_type) ==
    IF calc_type \notin {None, ""} /\ (species \o "_" \o calc_type) \in DOMAIN lookup
      THEN lookup[species \o "_" \o calc_type]
    ELSE Get(lookup, species, <<>>)

\* _find_entries
RECURSIVE find_entries(_, _, _, _)
find_entries(raw_data, branch, category, catalyst) ==
    IF Len(raw_data) = 0 THEN <<>>
    ELSE LET entry == Head(raw_data)
             skip == \/ Get(entry, "Branch", None) # branch
                     \/ Get(entry, "Category", None) # category
                     \/ (catalyst \notin {None, ""} /\ Get(entry, "Catalyst", None) # catalyst)
         IN  (IF skip THEN <<>> ELSE <<entry>>)
             \o find_entries(Tail(raw_data), branch, category, catalyst)

\* _create_stage: the stage, or the empty dict for None
create_stage(stage_name, species_list, energy_lookup, calc_types) ==
    LET energies == [i \in 1..Len(species_list) |->
                        get_energy(species_list[i], energy_lookup, calc_types[i])]
        RECURSIVE total(_, _)
        total(k, i) == IF i > Len(energies) THEN 0 ELSE energies[i][k] + total(k, i + 1)
        has_g_data == \A i \in 1..Len(energies) : energies[i].G # NoneInt
        non_empty_calc_types == SelectSeq(calc_types, LAMBDA ct : ct \notin {None, ""})
    IN  IF Len(species_list) = 0 THEN <<>>
        ELSE IF \E i \in 1..Len(energies) : DOMAIN energies[i] = {} THEN <<>>
        ELSE ("Stage" :> stage_name)
             @@ ("Calc_Type" :> IF Len(non_empty_calc_types) > 0
                                  THEN non_empty_calc_types[1] ELSE None)
             @@ ("Species" :> Join(species_list, " + "))
             @@ ("E (kcal/mol)" :> total("E", 1))
             @@ ("G (kcal/mol)" :> IF has_g_data THEN total("G", 1) ELSE NoneInt)
             @@ ("Source" :> IF Len(species_list) = 1 /\ calc_types[1] \notin {None, ""}
                               THEN "Direct (" \o calc_types[1] \o ")"
                             ELSE IF Len(species_list) = 1 THEN "Direct"
                             ELSE "Addition")

\* _generate_stages: stage_configurations
stage_configurations(stage_type) ==
    LET cfg(branch, category, stage_name, missing, needs_catalyst, components_key) ==
            [branch |-> branch, category |-> category, stage_name |-> stage_name,
             needs_missing_components |-> missing, needs_catalyst |-> needs_catalyst,
             components_key |-> components_key]
    IN  CASE stage_type = "reactants" ->
                cfg("reactants", "no_cat", "Reactants", TRUE, TRUE, "all_reactants")
          [] stage_type = "products" ->
                cfg("products", "no_cat", "Products", TRUE, TRUE, "all_products")
          [] stage_type = "preTS" -> cfg("preTS", "cat", "preTS", TRUE, FALSE, "all_reactants")
          [] stage_type = "postTS" -> cfg("postTS", "cat", "postTS", TRUE, FALSE, "all_products")
          [] stage_type = "ts_cat" -> cfg("ts", "cat", "TS", FALSE, FALSE, None)
          [] stage_type = "ts_nocat" -> cfg("ts", "no_cat", "TS", FALSE, TRUE, None)

\* missing_components where no component is ever missing
Missing_None(components_list, present_components) == <<>>

\* [c for c in components_list if c not in present_components]
Missing(components_list, present_components) ==
    SelectSeq(components_list,
              LAMBDA c : \A i \in 1..Len(present_components) : present_components[i] # c)

\* _generate_stages: the loop over the entries
RECURSIVE StagesOf(_, _, _, _, _, _)
StagesOf(entries, stage_config, catalyst, components, energy_lookup, seen_combinations) ==
    IF Len(entries) = 0 THEN <<>>
    ELSE LET entry == Head(entries)
             calc_type == Get(entry, "Calc_Type", "")
             present_key == IF stage_config.components_key = "all_reactants"
                              THEN "reactants" ELSE "products"
             missing_components ==
                 IF stage_config.needs_missing_components
                   THEN Missing(components[stage_config.components_key],
                                Get(entry, present_key, <<>>))
                   ELSE <<>>
             with_catalyst == IF stage_config.needs_catalyst THEN <<catalyst>> ELSE <<>>
             species_list == <<entry.Species>> \o missing_components \o with_catalyst
             calc_types == <<IF calc_type # "" THEN calc_type ELSE None>>
                           \o [i \in 1..(Len(species_list) - 1) |-> None]
             species_set == {species_list[i] : i \in 1..Len(species_list)}
             duplicate == stage_config.category = "no_cat" /\ species_set \in seen_combinations
             stage == create_stage(stage_config.stage_name, species_list, energy_lookup,
                                   calc_types)
         IN  (IF duplicate \/ DOMAIN stage = {} THEN <<>> ELSE <<stage>>)
             \o StagesOf(Tail(entries), stage_config, catalyst, components, energy_lookup,
                         IF stage_config.category = "no_cat"
                           THEN seen_combinations \cup {species_set}
                           ELSE seen_combinations)

\* _generate_stages
generate_stages(stage_type, catalyst, raw_data, components, energy_lookup) ==
    LET stage_config == stage_configurations(stage_type)
    IN  StagesOf(find_entries(raw_data, stage_config.branch, stage_config.category,
                              IF stage_config.category = "cat" THEN catalyst ELSE None),
                 stage_config, catalyst, components, energy_lookup, {})

\* _generate_catalyst_profile
\* _generate_catalyst_profile with the stages after the transition state
\* first
generate_catalyst_profile_ProductsFirst(catalyst, raw_data, components, energy_lookup) ==
    generate_stages("products", catalyst, raw_data, components, energy_lookup)
    \o generate_stages("postTS", catalyst, raw_data, components, energy_lookup)
    \o generate_stages("reactants", catalyst, raw_data, components, energy_lookup)
    \o generate_stages("preTS", catalyst, raw_data, components, energy_lookup)
    \o generate_stages("ts_cat", catalyst, raw_data, components, energy_lookup)
    \o generate_stages("ts_nocat", catalyst, raw_data, components, energy_lookup)

generate_catalyst_profile(catalyst, raw_data, components, energy_lookup) ==
    generate_stages("reactants", catalyst, raw_data, components, energy_lookup)
    \o generate_stages("preTS", catalyst, raw_data, components, energy_lookup)
    \o generate_stages("ts_cat", catalyst, raw_data, components, energy_lookup)
    \o generate_stages("ts_nocat", catalyst, raw_data, components, energy_lookup)
    \o generate_stages("postTS", catalyst, raw_data, components, energy_lookup)
    \o generate_stages("products", catalyst, raw_data, components, energy_lookup)

\* min(stages, key=lambda x: x.get(energy_key, float('inf'))): the first
\* stage of least energy; comparing None with a number raises
MinStage(stages, energy_key) ==
    IF Len(stages) > 1 /\ \E i \in 1..Len(stages) : stages[i][energy_key] = NoneInt
      THEN Raise("TypeError")
    ELSE stages[CHOOSE i \in 1..Len(stages) :
                    /\ \A j \in 1..Len(stages) : stages[i][energy_key] <= stages[j][energy_key]
                    /\ \A j \in 1..(i - 1) : stages[j][energy_key] > stages[i][energy_key]]

\* _filter_profile where the pol_cat and frz_cat stages kept are those of
\* least energy, whatever their species
filter_profile_Independent(profile, energy_type) ==
    LET energy_key == energy_type \o " (kcal/mol)"
        NoCalcType == {None, "", "unknown"}
        stage_names == SelectSeq([i \in 1..Len(profile) |->
                                     IF \E k \in 1..(i - 1) : profile[k].Stage = profile[i].Stage
                                       THEN None ELSE profile[i].Stage],
                                 LAMBDA n : n # None)
        calc_type_stages(n) ==
            SelectSeq(profile, LAMBDA st : st.Stage = n /\ st.Calc_Type \notin NoCalcType)
        no_calc_type_stages(n) ==
            SelectSeq(profile, LAMBDA st : st.Stage = n /\ st.Calc_Type \in NoCalcType)
        full_cat_stages(n) == SelectSeq(calc_type_stages(n), LAMBDA st : st.Calc_Type = "full_cat")
        min_stage(n) == IF Len(full_cat_stages(n)) > 0
                          THEN MinStage(full_cat_stages(n), energy_key)
                          ELSE MinStage(calc_type_stages(n), energy_key)
        matching(n, calc_type) ==
            LET matching_stages ==
                    SelectSeq(calc_type_stages(n), LAMBDA st : st.Calc_Type = calc_type)
            IN  IF Len(matching_stages) > 0
                  THEN <<MinStage(matching_stages, energy_key)>> ELSE <<>>
        kept(n) ==
            (IF Len(calc_type_stages(n)) = 0 THEN <<>>
             ELSE IF IsRaise(min_stage(n)) THEN <<min_stage(n)>>
             ELSE IF Len(full_cat_stages(n)) > 0
               THEN <<min_stage(n)>> \o matching(n, "pol_cat") \o matching(n, "frz_cat")
             ELSE SelectSeq(calc_type_stages(n),
                            LAMBDA st : st.Species = min_stage(n).Species))
            \o (IF Len(no_calc_type_stages(n)) > 0
                  THEN <<MinStage(no_calc_type_stages(n), energy_key)>> ELSE <<>>)
        filtered == Flatten([k \in 1..Len(stage_names) |-> kept(stage_names[k])])
        index(st) == CHOOSE i \in 1..Len(profile) :
                        profile[i] = st /\ \A k \in 1..(i - 1) : profile[k] # st
    IN  IF \A i \in 1..Len(profile) : profile[i][energy_key] = NoneInt THEN <<>>
        ELSE IF \E k \in 1..Len(filtered) : IsRaise(filtered[k]) THEN <<Raise("TypeError")>>
        ELSE Flatten([i \in 1..Len(profile) |->
                         SelectSeq(filtered, LAMBDA st : index(st) = i)])

\* _filter_profile: the filtered profile in the order of the profile, or
\* <<Raise(e)>>
filter_profile(profile, energy_type) ==
    LET energy_key == energy_type \o " (kcal/mol)"
        NoCalcType == {None, "", "unknown"}
        stage_names == SelectSeq([i \in 1..Len(profile) |->
                                     IF \E k \in 1..(i - 1) : profile[k].Stage = profile[i].Stage
                                       THEN None ELSE profile[i].Stage],
                                 LAMBDA n : n # None)
        calc_type_stages(n) ==
            SelectSeq(profile, LAMBDA st : st.Stage = n /\ st.Calc_Type \notin NoCalcType)
        no_calc_type_stages(n) ==
            SelectSeq(profile, LAMBDA st : st.Stage = n /\ st.Calc_Type \in NoCalcType)
        full_cat_stages(n) == SelectSeq(calc_type_stages(n), LAMBDA st : st.Calc_Type = "full_cat")
        min_stage(n) == IF Len(full_cat_stages(n)) > 0
                          THEN MinStage(full_cat_stages(n), energy_key)
                          ELSE MinStage(calc_type_stages(n), energy_key)
        matching(n, calc_type) ==
            LET matching_stages ==
                    SelectSeq(calc_type_stages(n),
                              LAMBDA st : /\ st.Calc_Type = calc_type
                                          /\ st.Species = min_stage(n).Species)
            IN  IF Len(matching_stages) > 0 THEN <<matching_stages[1]>> ELSE <<>>
        kept(n) ==
            (IF Len(calc_type_stages(n)) = 0 THEN <<>>
             ELSE IF IsRaise(min_stage(n)) THEN <<min_stage(n)>>
             ELSE IF Len(full_cat_stages(n)) > 0
               THEN <<min_stage(n)>> \o matching(n, "pol_cat") \o matching(n, "frz_cat")
             ELSE SelectSeq(calc_type_stages(n),
                            LAMBDA st : st.Species = min_stage(n).Species))
            \o (IF Len(no_calc_type_stages(n)) > 0
                  THEN <<MinStage(no_calc_type_stages(n), energy_key)>> ELSE <<>>)
        filtered == Flatten([k \in 1..Len(stage_names) |-> kept(stage_names[k])])
        index(st) == CHOOSE i \in 1..Len(profile) :
                        profile[i] = st /\ \A k \in 1..(i - 1) : profile[k] # st
    IN  IF \A i \in 1..Len(profile) : profile[i][energy_key] = NoneInt THEN <<>>
        ELSE IF \E k \in 1..Len(filtered) : IsRaise(filtered[k]) THEN <<Raise("TypeError")>>
        ELSE Flatten([i \in 1..Len(profile) |->
                         SelectSeq(filtered, LAMBDA st : index(st) = i)])

\* extract_profiles(raw_data_list, filter_duplicates=True) begins: the lookup
\* structures are built
StartProfiles ==
    /\ phase = "profile"
    /\ pfStage = "idle"
    /\ IF Len(raw_data_list) = 0
         THEN /\ pfStage' = "returned"
              /\ UNCHANGED pfLookup
         ELSE /\ pfLookup' = build_energy_lookup(raw_data_list, <<>>)
              /\ pfStage' = "catalysts"
    /\ UNCHANGED <<exVars, phase, stVars, buildVars, fsVars, raw_data_list, cat_idx, profiles>>

\* the body of the loop over components["all_catalysts"]: profiles after it,
\* or Raise(e)
CatalystIteration(result, catalyst, raw_data, energy_lookup) ==
    LET raw_profile == generate_catalyst_profile(catalyst, raw_data,
                                                 get_components(raw_data), energy_lookup)
        by_e == filter_profile(raw_profile, "E")
        by_g == filter_profile(raw_profile, "G")
    IN  IF Len(raw_profile) = 0 THEN result
        ELSE IF Len(by_e) > 0 /\ IsRaise(by_e[1]) THEN by_e[1]
        ELSE IF Len(by_g) > 0 /\ IsRaise(by_g[1]) THEN by_g[1]
        ELSE (catalyst :> [raw |-> raw_profile, E |-> by_e, G |-> by_g]) @@ result

\* one iteration of the loop over components["all_catalysts"]; an exception
\* leaves extract_profiles
CatalystProfile ==
    /\ phase = "profile"
    /\ pfStage = "catalysts"
    /\ cat_idx <= Len(get_components(raw_data_list).all_catalysts)
    /\ LET after == CatalystIteration(profiles,
                        get_components(raw_data_list).all_catalysts[cat_idx],
                        raw_data_list, pfLookup)
       IN  IF IsRaise(after)
             THEN /\ pfStage' = "raised"
                  /\ UNCHANGED <<profiles, cat_idx>>
             ELSE /\ profiles' = after
                  /\ cat_idx' = cat_idx + 1
                  /\ UNCHANGED pfStage
    /\ UNCHANGED <<exVars, phase, stVars, buildVars, fsVars, raw_data_list, pfLookup>>

\* return profiles
ReturnProfiles ==
    /\ phase = "profile"
    /\ pfStage = "catalysts"
    /\ cat_idx > Len(get_components(raw_data_list).all_catalysts)
    /\ pfStage' = "returned"
    /\ UNCHANGED <<exVars, phase, stVars, buildVars, fsVars, raw_data_list, pfLookup, cat_idx,
                   profiles>>

\* the calculations of the reaction A + B -> P with one method that has a
\* single-point level of theory, with the catalyst C and with no catalyst
ProfileNetworks ==
    {iter_input_paths(process_config(raw)) :
        raw \in {r \in RawConfigs :
                    /\ Len(r.methods) = 1
                    /\ r.methods[1].solvent = <<"false", "smd">>
                    /\ r.methods[1].eda2 = 1
                    /\ r.reactants = <<RawSpecies("A", TRUE), RawSpecies("B", TRUE)>>
                    /\ r.products = <<RawSpecies("P", TRUE)>>}}

\* the species whose record the extraction may not have produced
DroppedSpecies == {{}, {"A-B"}, {"A"}, {"C"}, {"C-A-B"}}

\* the (species, calc type) pairs whose energy is drawn
VariedEnergies == {"C-A", "C-B"} \X {"full_cat", "pol_cat"}

\* the energy (kcal/mol) of a calculation, lower by one for the pairs in low
EnergyOf(metadata, low) ==
    CASE metadata.Species = "A" -> 0 - 3
      [] metadata.Species = "B" -> 0 - 3
      [] metadata.Species = "A-B" -> 0 - 8
      [] metadata.Species = "P" -> 0 - 9
      [] metadata.Species = "C" -> 0 - 2
      [] metadata.Branch = "ts" -> 6
      [] metadata.Branch = "postTS" -> 0 - 1
      [] OTHER -> IF <<metadata.Species, metadata.Calc_Type>> \in low THEN 1 ELSE 2

\* the record of a calculation: an OPT record with or without G, or an SP
\* record with or without G
RecordOf(metadata, kind, low, has_g) ==
    metadata
    @@ (IF kind = "opt" THEN "E (kcal/mol)" :> EnergyOf(metadata, low)
        ELSE "SP_E (kcal/mol)" :> EnergyOf(metadata, low))
    @@ (IF has_g THEN "G (kcal/mol)" :> (EnergyOf(metadata, low) + 10) ELSE <<>>)

\* which records have G: all, none, all but those of C-A, or all but that
\* of P
GModes == {"all", "none", "mixed", "but_P"}

\* the opt_data (kind "opt") or the sp_data (kind "sp") of one method combo,
\* in the order of the extraction
RecordLists ==
    {LET kept == SelectSeq(items, LAMBDA it : /\ it.metadata.Mode = kind
                                              /\ it.metadata.Species \notin dropped)
     IN  [i \in 1..Len(kept) |->
             RecordOf(kept[i].metadata, kind, low,
                      \/ g = "all"
                      \/ (g = "mixed" /\ kept[i].metadata.Species # "C-A")
                      \/ (g = "but_P" /\ kept[i].metadata.Species # "P"))] :
        items \in ProfileNetworks, dropped \in DroppedSpecies, kind \in {"opt", "sp"},
        low \in SUBSET VariedEnergies, g \in GModes}
    \cup {<<>>}

\* a list in which the single point of C-A frz_cat gave a record without
\* energy (the None columns _extract_eda_sp_energy returns), and so without G
WithNullEnergy(records) ==
    [i \in 1..Len(records) |->
        IF records[i].Species = "C-A" /\ records[i].Calc_Type = "frz_cat"
          THEN [k \in DOMAIN records[i] \ {"G (kcal/mol)"} |->
                   IF k = "SP_E (kcal/mol)" THEN NoneInt ELSE records[i][k]]
          ELSE records[i]]

\* the record lists, and the sp_data lists with a record without energy
VariantRecordLists ==
    RecordLists
    \cup {WithNullEnergy(records) :
            records \in {l \in RecordLists :
                            Len(l) > 0 /\ "SP_E (kcal/mol)" \in DOMAIN l[1]}}

InitProfileOf(record_lists) ==
    /\ phase = "profile"
    /\ StatusIdle
    /\ BuilderIdle
    /\ ExtractIdle
    /\ raw_data_list \in record_lists
    /\ pfLookup = <<>>
    /\ cat_idx = 1
    /\ profiles = <<>>
    /\ pfStage = "idle"

InitProfile == InitProfileOf(RecordLists)

InitVariants == InitProfileOf(VariantRecordLists)

NextProfile == StartProfiles \/ CatalystProfile \/ ReturnProfiles

SpecProfile == InitProfile /\ [][NextProfile]_vars

SpecVariants == InitVariants /\ [][NextProfile]_vars

(***************************************************************************)
(* Status classification of one calculation                                *)
(***************************************************************************)
OptMarkers == {None, "OPTIMIZATION CONVERGED", "TRANSITION STATE CONVERGED"}

\* the output texts a calculation can leave behind
OutTexts ==
    {[EmptyText EXCEPT !.lead = l, !.trail = t, !.markers = m, !.opt = o, !.imag = i] :
        l \in BOOLEAN, t \in BOOLEAN,
        m \in {x \in SUBSET OutMarkers : Cardinality(x) <= MaxMarkers},
        o \in OptMarkers, i \in {NoneInt} \cup 0..MaxImag}

ErrTexts == {[exists |-> TRUE, markers |-> m] : m \in SUBSET ErrMarkers}

NoErrFile == [exists |-> FALSE, markers |-> {}]

\* the metadata records get_status_for_file is called with
StatusMetas == {NoMeta, [Mode |-> "sp", Branch |-> "ts"]}
               \cup [Mode : {"opt"}, Branch : {"ts", "reactants", "preTS"}]

Pending == <<"", "">>

\* an input file with the job files given, not yet examined
InitStatusOf(out_texts, err_texts) ==
    /\ phase = "status"
    /\ stFiles \in {CalcFiles(TRUE, o, e, s) :
                        o \in out_texts \cup {NoFile},
                        e \in err_texts \cup {NoErrFile},
                        s \in BOOLEAN}
    /\ stMeta = NoMeta
    /\ stResult = Pending
    /\ BuilderIdle
    /\ ExtractIdle
    /\ ProfileIdle

\* output texts without surrounding whitespace and with one marker at most
ReadOutTexts ==
    {o \in OutTexts : ~o.lead /\ ~o.trail /\ Cardinality(o.markers) <= 1}

\* the calculations that have a submission marker file
InitRunning == InitStatusOf(ReadOutTexts, ErrTexts) /\ stFiles.sub

InitStatus == InitStatusOf(OutTexts, ErrTexts)

\* get_status_for_file leaving an output file behind
Classify_Touching ==
    /\ phase = "status"
    /\ stResult = Pending
    /\ \E m \in StatusMetas :
          /\ stMeta' = m
          /\ stResult' = get_status_for_file(stFiles, m)
    /\ stFiles' = [stFiles EXCEPT !.out.exists = TRUE]
    /\ UNCHANGED <<pfVars, exVars, phase, buildVars, fsVars>>

\* a call get_status_for_file(input_file, metadata)
Classify ==
    /\ phase = "status"
    /\ stResult = Pending
    /\ \E m \in StatusMetas :
          /\ stMeta' = m
          /\ stResult' = get_status_for_file(stFiles, m)
    /\ UNCHANGED <<pfVars, exVars, phase, stFiles, buildVars, fsVars>>

\* the job leaves the queue: its submission marker file is gone, and its
\* output is as it was or is that of a finished job; the status known so far
\* is out of date
MarkerGone ==
    /\ phase = "status"
    /\ stFiles.sub
    /\ stResult # Pending
    /\ \E o \in {stFiles.out,
                  [EmptyText EXCEPT !.markers = {"Running on", "Thank you very much"}]} :
          stFiles' = [stFiles EXCEPT !.sub = FALSE, !.out = o]
    /\ stMeta' = NoMeta
    /\ stResult' = Pending
    /\ UNCHANGED <<pfVars, exVars, phase, buildVars, fsVars>>

NextRunning == Classify \/ MarkerGone

SpecRunning == InitRunning /\ [][NextRunning]_vars

NextStatus == Classify

SpecStatus == InitStatus /\ [][NextStatus]_vars

(***************************************************************************)
(* Properties of the status classifier                                     *)
(***************************************************************************)
FailureMarkers == {"Q-Chem fatal error occurred", "SCF failed to converge",
                   "Insufficient memory", "SGeom Failed"}

Classified == phase = "status" /\ stResult # Pending

\* the text, error markers and submission flag the classifier saw
StContent == IF stFiles.out.exists THEN read_text(stFiles.out) ELSE EmptyText
StErr == IF stFiles.err.exists THEN stFiles.err.markers ELSE {}

HasFailureMarker == StContent.markers \cap FailureMarkers # {}
ErrAbnormal == "Error in Q-Chem run" \in StErr \/ "Aborted" \in StErr

\* C2 as stated: with no cancellation marker in the error stream, an output
\* text that contains a fatal-error or known failure marker is classified
\* CRASH, whatever the submission marker, start marker and completion marker.
C2_CrashHasPriority ==
    (Classified /\ "CANCELLED AT" \notin StErr /\ HasFailureMarker)
        => stResult[1] = "CRASH"

\* C2 amended: with no cancellation marker in the error stream, an output
\* text that contains a failure marker is classified CRASH exactly when the
\* error stream signals an abnormal termination, or there is no submission
\* marker and the output holds neither the start nor the completion marker;
\* otherwise it is running (submission marker, or start marker without
\* completion marker) or successful, subject to validation (completion marker).
C2_CrashAfterRunningAndSuccess ==
    (Classified /\ "CANCELLED AT" \notin StErr /\ HasFailureMarker)
        => /\ stResult[1] = "CRASH" <=>
                 \/ ErrAbnormal
                 \/ /\ ~stFiles.sub
                    /\ "Running on" \notin StContent.markers
                    /\ "Thank you very much" \notin StContent.markers
           /\ (~ErrAbnormal /\ stFiles.sub) => stResult[1] = "running"
           /\ (~ErrAbnormal /\ ~stFiles.sub /\ "Thank you very much" \in StContent.markers)
                 => stResult[1] \in {"SUCCESSFUL", "VALIDATION"}
           /\ (~ErrAbnormal /\ ~stFiles.sub /\ "Thank you very much" \notin StContent.markers
                 /\ "Running on" \in StContent.markers) => stResult[1] = "running"

\* an output with a failure marker and the completion marker, no error
\* stream marker, no submission marker: classified, and not as CRASH
C2_Witness ==
    /\ Classified
    /\ StErr = {}
    /\ ~stFiles.sub
    /\ "SCF failed to converge" \in StContent.markers
    /\ "Thank you very much" \in StContent.markers
    /\ stResult[1] = "SUCCESSFUL"

\* C8: on a ts branch, a calculation whose base status is SUCCESSFUL and
\* whose output shows a converged marker and reports an imaginary-frequency
\* count other than 1 has the enhanced status VALIDATION.
C8_TsValidation ==
    (/\ Classified
     /\ stMeta.Mode = "opt" /\ stMeta.Branch = "ts"
     /\ BaseStatus(stFiles)[1] = "SUCCESSFUL"
     /\ StContent.opt # None
     /\ StContent.imag # NoneInt /\ StContent.imag # 1)
        => stResult[1] = "VALIDATION"

\* a ts optimization that converged as a minimum with 0 imaginary frequencies
C8_Witness ==
    /\ Classified
    /\ stMeta = [Mode |-> "opt", Branch |-> "ts"]
    /\ BaseStatus(stFiles)[1] = "SUCCESSFUL"
    /\ StContent.opt = "OPTIMIZATION CONVERGED"
    /\ StContent.imag = 0
    /\ stResult[1] = "VALIDATION"

\* the frequencies the output shows do not fit the branch: a ts branch wants
\* exactly one imaginary frequency, every other branch none
FrequencyMismatch ==
    IF stMeta.Branch = "ts"
      THEN StContent.imag # 1
      ELSE StContent.imag # NoneInt /\ StContent.imag > 0

\* C20: an optimisation whose base status is SUCCESSFUL and that is checked
\* with its metadata has the enhanced status VALIDATION exactly when the
\* branch is ts and the output does not show exactly one imaginary frequency,
\* or the branch is not ts and the output shows more than zero; otherwise the
\* status stays SUCCESSFUL; for every convergence marker (none, minimum,
\* transition state) and every frequency report (absent or any count)
C20_ValidationExactly ==
    (/\ Classified
     /\ stMeta.Mode = "opt"
     /\ BaseStatus(stFiles)[1] = "SUCCESSFUL")
        => stResult[1] = IF FrequencyMismatch THEN "VALIDATION" ELSE "SUCCESSFUL"

\* C13: an output file that exists but is blank, with no error-stream marker
\* and no submission marker, has the status empty; the status nofile is given
\* only when no output file exists
C13_BlankIsEmpty ==
    Classified
        => /\ (stFiles.out.exists /\ IsBlank(stFiles.out) /\ StErr = {} /\ ~stFiles.sub)
                 => stResult[1] = "empty"
           /\ stResult[1] = "nofile" => ~stFiles.out.exists

\* C14 as stated: an output text with the completion marker and no error
\* marker, in the text or in the error stream, is classified SUCCESSFUL
C14_CompletionIsSuccessful ==
    (/\ Classified
     /\ stFiles.out.exists
     /\ "Thank you very much" \in stFiles.out.markers
     /\ stFiles.out.markers \cap FailureMarkers = {}
     /\ StErr = {})
        => stResult[1] = "SUCCESSFUL"

\* C14 amended: an output text with the completion marker, with no marker in
\* the error stream and no submission marker, is classified SUCCESSFUL
\* whatever whitespace surrounds it and whatever other markers it holds,
\* unless it is checked with the metadata of an optimisation and reports a
\* convergence marker or a frequency count, when it may be VALIDATION
C14_CompletionWithoutSubmission ==
    (/\ Classified
     /\ stFiles.out.exists
     /\ "Thank you very much" \in stFiles.out.markers
     /\ StErr = {}
     /\ ~stFiles.sub)
        => /\ stResult[1] \in {"SUCCESSFUL", "VALIDATION"}
           /\ stResult[1] = "VALIDATION"
                 => /\ stMeta.Mode = "opt"
                    /\ stFiles.out.opt # None \/ stFiles.out.imag # NoneInt

\* a text with the completion marker between leading and trailing
\* whitespace, classified SUCCESSFUL
C14_Witness ==
    /\ Classified
    /\ stFiles.out.exists /\ stFiles.out.lead /\ stFiles.out.trail
    /\ "Thank you very much" \in stFiles.out.markers
    /\ StErr = {} /\ ~stFiles.sub
    /\ stResult[1] = "SUCCESSFUL"

(***************************************************************************)
(* Properties of the identity/path builder                                 *)
(***************************************************************************)
\* C1: within one enumeration of calculation identities, no two yielded
\* entries have the same input path.
C1_UniquePaths ==
    \A i, j \in 1..Len(yielded) : i < j => yielded[i].path # yielded[j].path

\* the dash-joined names of the subsequences of names
RECURSIVE SubsequenceNames(_)
SubsequenceNames(names) ==
    IF Len(names) = 0 THEN {""}
    ELSE LET rest == SubsequenceNames(Tail(names))
         IN  rest \cup {IF r = "" THEN Head(names) ELSE Head(names) \o "-" \o r : r \in rest}

\* the combination a yielded identity is about: its species without the
\* catalyst prefix
CombinationOf(item) ==
    LET sp == item.metadata.Species
        cat == item.metadata.Catalyst
    IN  IF item.metadata.Branch \in {"preTS", "postTS"}
          THEN SubSeq(sp, Len(cat) + 2, Len(sp))
          ELSE sp

KeepsConfigOrder(item) ==
    CASE item.metadata.Branch \in {"reactants", "preTS"} ->
            CombinationOf(item) \in SubsequenceNames(NamesOf(processed_config.reactants))
      [] item.metadata.Branch \in {"products", "postTS"} ->
            CombinationOf(item) \in SubsequenceNames(NamesOf(processed_config.products))
      [] OTHER -> TRUE

\* C6: an enumeration yields the same identities (path and metadata) in the
\* same order as the enumeration completed before it, whatever input files
\* were written and whatever runs were made in between, and every
\* combination name lists its species in the order of the configuration.
C6_Deterministic ==
    /\ (phase \in BuildPhases /\ run.mode = "yield" /\ earlier.done) =>
          /\ Len(yielded) <= Len(earlier.items)
          /\ \A i \in 1..Len(yielded) : yielded[i] = earlier.items[i]
          /\ pos > Len(plan) => Len(yielded) = Len(earlier.items)
    /\ \A i \in 1..Len(yielded) : KeepsConfigOrder(yielded[i])

\* a second enumeration has completed after input files were written, and it
\* holds a combination of two reactants
C6_Witness ==
    /\ phase \in BuildPhases /\ run.mode = "yield" /\ earlier.done
    /\ pos > Len(plan)
    /\ fsInputs # {}
    /\ \E i \in 1..Len(yielded) :
          /\ yielded[i].metadata.Branch = "reactants"
          /\ Len(yielded[i].metadata.reactants) = 2

\* the enhanced status of the optimisation an SP task belongs to, as
\* build_and_write_input_file reads it
OptStatusOf(t) ==
    LET method == processed_config.methods[t.m]
        bs == method.basis_sets[t.b]
        opt_path == build_file_path(method.name.opt, bs.opt, method.dispersion.opt,
                        method.solvent.opt, t.category, t.branch, t.species,
                        t.calc_type, t.catalyst_name, "opt", None)
    IN  IF opt_path \in fsInputs
          THEN get_status_for_file(FilesAt(fsInputs, fsJobs, opt_path),
                                   [Mode |-> "opt", Branch |-> t.branch])[1]
          ELSE "no input"

\* C7: with the strategy "smart" an SP input file is written only if the
\* enhanced status of its optimisation is SUCCESSFUL when the file is
\* generated, and with the strategy "never" no SP input file is written.
C7_SmartNeedsSuccess ==
    [][(/\ phase \in BuildPhases
        /\ pos <= Len(plan)
        /\ pos' = pos + 1
        /\ plan[pos].file_mode = "sp"
        /\ last'.outcome = "written")
       => /\ run.sp_strategy # "never"
          /\ run.sp_strategy = "smart" => OptStatusOf(plan[pos]) = "SUCCESSFUL"]_vars

\* an SP input file has just been written under the strategy "smart"
C7_Witness ==
    /\ phase \in BuildPhases
    /\ run.sp_strategy = "smart"
    /\ last.mode = "sp"
    /\ last.outcome = "written"

(***************************************************************************)
(* Properties of the extraction                                            *)
(***************************************************************************)
\* the records extracted so far: those of the combo under way and those
\* handed to the CSV writers
SeqRange(q) == {q[i] : i \in 1..Len(q)}

OptRecords ==
    SeqRange(combo_result.opt_data)
    \cup UNION {SeqRange(all_results[c].opt_data) : c \in DOMAIN all_results}

SpRecords ==
    SeqRange(combo_result.sp_data)
    \cup UNION {SeqRange(all_results[c].sp_data) : c \in DOMAIN all_results}

\* the enhanced status of the calculation a record was extracted from
EnhancedStatusOf(record) ==
    get_status_for_file(FilesAt(fsInputs, fsJobs, record.Path),
                        [Mode |-> record.Mode, Branch |-> record.Branch])[1]

\* C3: with the criteria SUCCESSFUL, no record is extracted from an
\* optimisation whose enhanced status is VALIDATION
C3_NoValidationRecord ==
    (phase = "extract" /\ exCriteria = "SUCCESSFUL")
        => \A r \in OptRecords : EnhancedStatusOf(r) # "VALIDATION"

\* C4: every extracted record carries a non-null energy in kcal/mol, for an
\* optimisation, a plain single point and an EDA single point alike
C4_RecordHasEnergy ==
    phase = "extract"
        => /\ \A r \in OptRecords : Get(r, "E (kcal/mol)", NoneInt) # NoneInt
           /\ \A r \in SpRecords : Get(r, "SP_E (kcal/mol)", NoneInt) # NoneInt

\* C5: when the run has ended, the record of every optimisation that
\* extracts to a record has been handed to the CSV writers, whatever happened
\* to any other calculation
C5_SiblingRecordsSurvive ==
    (phase = "extract" /\ exStage = "finished")
        => \A i \in 1..Len(ExtractItems) :
                  LET m == ExtractItems[i].metadata
                      record == extract_opt_data(
                                    FilesAt(fsInputs, fsJobs, ExtractItems[i].path),
                                    m, exCriteria)
              IN  (m.Mode = "opt" /\ DOMAIN record # {})
                         => /\ m.Method_Combo \in DOMAIN all_results
                            /\ record \in SeqRange(all_results[m.Method_Combo].opt_data)

\* the dash-joined names, in the order of names, of every choice of at least
\* min_length of them
SubsetNames(names, min_length) ==
    {Join(SelectSeq([i \in 1..Len(names) |-> IF i \in S THEN names[i] ELSE None],
                    LAMBDA n : n # None), "-") :
        S \in {T \in SUBSET (1..Len(names)) : Cardinality(T) >= min_length}}

\* the species passes the enumeration is to cover, as (category, branch,
\* species, calc type, catalyst), where the complexes are formed from the
\* reactants and the products given
ExpectedSpecies(config, reactants, products) ==
    {<<"no_cat", "reactants", n, "", "">> : n \in SubsetNames(NamesOf(config.reactants), 1)
                                                \ SubsetNames(NamesOf(config.reactants), 2)}
    \cup {<<"no_cat", "reactants", n, "", "">> : n \in SubsetNames(reactants, 2)}
    \cup {<<"no_cat", "products", n, "", "">> : n \in SubsetNames(NamesOf(config.products), 1)
                                                   \ SubsetNames(NamesOf(config.products), 2)}
    \cup {<<"no_cat", "ts", "tscomplex", "", "">>}
    \cup UNION {
           {<<"cat", "cat", c, "", c>>}
           \cup {<<"cat", "preTS", c \o "-" \o n, ct, c>> :
                    n \in SubsetNames(reactants, 1), ct \in {"full_cat", "pol_cat", "frz_cat"}}
           \cup {<<"cat", "postTS", c \o "-" \o n, ct, c>> :
                    n \in SubsetNames(products, 1), ct \in {"full_cat", "pol_cat", "frz_cat"}}
           \cup {<<"cat", "ts", "ts_" \o c \o "-tscomplex", ct, c>> :
                    ct \in {"full_cat", "pol_cat", "frz_cat"}} :
           c \in {config.catalysts[i].name.opt : i \in 1..Len(config.catalysts)}}

\* the identities the enumeration is to cover: per (method, basis) pair an
\* optimisation of every species pass, and a single point of it when the
\* method and the basis set both declare a single-point value
ExpectedIdentities(config, reactants, products) ==
    LET pairs == {<<m, b>> : m \in {config.methods[i] : i \in 1..Len(config.methods)},
                            b \in UNION {{config.methods[i].basis_sets[j] :
                                             j \in 1..Len(config.methods[i].basis_sets)} :
                                         i \in 1..Len(config.methods)}}
        own == {p \in pairs : \E j \in 1..Len(p[1].basis_sets) : p[1].basis_sets[j] = p[2]}
        opt(p) == build_method_folder_name(p[1].name.opt, p[2].opt, p[1].dispersion.opt,
                                           p[1].solvent.opt)
        sp(p) == build_method_folder_name(p[1].name.sp, p[2].sp, p[1].dispersion.sp,
                                          p[1].solvent.sp)
        species == ExpectedSpecies(config, reactants, products)
    IN  {<<opt(p), None, "opt", s>> : p \in own, s \in species}
        \cup {<<opt(p), sp(p), "sp", s>> :
                 p \in {q \in own : q[1].name.sp_enabled /\ q[2].sp_enabled}, s \in species}

\* the identity of a yielded entry
IdentityOf(item) ==
    <<item.metadata.Method_Combo, item.metadata.SP_Method_Combo, item.metadata.Mode,
      <<item.metadata.Category, item.metadata.Branch, item.metadata.Species,
        item.metadata.Calc_Type, item.metadata.Catalyst>>>>

YieldedIdentities == {IdentityOf(yielded[i]) : i \in 1..Len(yielded)}

YieldComplete == phase \in BuildPhases /\ run.mode = "yield" /\ pos > Len(plan)

\* the names of the species whose include flag is set
FlaggedNames(species_list) == NamesOf(SelectSeq(species_list, LAMBDA x : x.include))

\* C12 as stated: a complete enumeration yields exactly the identities
\* formed from every reactant and every product of the configuration
C12_AllSpeciesCombined ==
    YieldComplete
        => YieldedIdentities = ExpectedIdentities(processed_config,
                                   NamesOf(processed_config.reactants),
                                   NamesOf(processed_config.products))

\* C12: a complete enumeration yields exactly: per (method, basis) pair,
\* each reactant and product alone, the uncatalysed transition state, the
\* combinations of two or more reactants whose include flag is set, and per
\* catalyst the catalyst alone and, in the three variants, the catalyst with
\* every non-empty choice of the included reactants, with every non-empty
\* choice of the included products, and its transition state; with a single
\* point exactly for the pairs whose method and basis set both declare one
C12_IncludedSpeciesCombined ==
    YieldComplete
        => YieldedIdentities = ExpectedIdentities(processed_config,
                                   FlaggedNames(processed_config.reactants),
                                   FlaggedNames(processed_config.products))

\* a complete enumeration for a catalyst, a reactant whose include flag is
\* not set and a method with a single-point level
C12_Witness ==
    /\ YieldComplete
    /\ Len(processed_config.catalysts) > 0
    /\ \E i \in 1..Len(processed_config.reactants) : ~processed_config.reactants[i].include
    /\ \E i \in 1..Len(yielded) : yielded[i].metadata.Mode = "sp"
    /\ \E i \in 1..Len(yielded) : yielded[i].metadata.Branch = "preTS"

(***************************************************************************)
(* Properties of the profile assembly                                      *)
(***************************************************************************)
\* the record of a species of the uncatalysed branch, if it has one
HasRecord(species) ==
    \E i \in 1..Len(raw_data_list) :
        raw_data_list[i].Species = species /\ raw_data_list[i].Category = "no_cat"

EnergyOfSpecies(species) ==
    LET r == raw_data_list[CHOOSE i \in 1..Len(raw_data_list) :
                               raw_data_list[i].Species = species]
    IN  IF "E (kcal/mol)" \in DOMAIN r THEN r["E (kcal/mol)"] ELSE r["SP_E (kcal/mol)"]

\* C9: once the profiles of a network with records for A and B are returned,
\* there is a profile of the uncatalysed pathway, under a key that is no
\* catalyst, whose Reactants stage is the A-B record when it exists and
\* otherwise the sum of the records of A and B, without any catalyst
C9_UncatalyzedProfile ==
    (phase = "profile" /\ pfStage = "returned" /\ HasRecord("A") /\ HasRecord("B"))
        => \E k \in DOMAIN profiles :
              /\ \A i \in 1..Len(raw_data_list[1].all_catalysts) :
                    raw_data_list[1].all_catalysts[i] # k
              /\ \E i \in 1..Len(profiles[k].raw) :
                    LET stage == profiles[k].raw[i]
                    IN  /\ stage.Stage = "Reactants"
                        /\ IF HasRecord("A-B")
                             THEN /\ stage.Species = "A-B"
                                  /\ stage["E (kcal/mol)"] = EnergyOfSpecies("A-B")
                             ELSE /\ stage.Species \in {"A + B", "B + A"}
                                  /\ stage["E (kcal/mol)"] =
                                        EnergyOfSpecies("A") + EnergyOfSpecies("B")

\* the stages of a profile with the stage name and a calc type among those given
StagesIn(profile, stage_name, calc_types) ==
    {profile[i] : i \in {j \in 1..Len(profile) : /\ profile[j].Stage = stage_name
                                                 /\ profile[j].Calc_Type \in calc_types}}

\* C10: in a filtered profile, for E and for G, a stage that has full_cat
\* entries keeps exactly one of them, one of least energy, and keeps a
\* pol_cat or frz_cat entry only if its species are those of that entry
C10_FilterKeepsOneGeometry ==
    phase = "profile"
        => \A c \in DOMAIN profiles, k \in {"E", "G"} :
              \A n \in {profiles[c].raw[i].Stage : i \in 1..Len(profiles[c].raw)} :
                 LET fulls == StagesIn(profiles[c].raw, n, {"full_cat"})
                     kept == StagesIn(profiles[c][k], n, {"full_cat"})
                     variants == StagesIn(profiles[c][k], n, {"pol_cat", "frz_cat"})
                 IN  (fulls # {} /\ Len(profiles[c][k]) > 0)
                        => \E m \in fulls :
                              /\ kept = {m}
                              /\ \A o \in fulls :
                                    m[k \o " (kcal/mol)"] <= o[k \o " (kcal/mol)"]
                              /\ \A v \in variants : v.Species = m.Species

\* a filtered profile whose preTS stage had two full_cat entries of different
\* energy and kept the pol_cat entry of the species of the lower one, although
\* a pol_cat entry of other species has less energy
C10_Witness ==
    /\ phase = "profile"
    /\ \E c \in DOMAIN profiles :
          \E m \in StagesIn(profiles[c].E, "preTS", {"full_cat"}),
             o \in StagesIn(profiles[c].raw, "preTS", {"full_cat"}),
             v \in StagesIn(profiles[c].E, "preTS", {"pol_cat"}),
             w \in StagesIn(profiles[c].raw, "preTS", {"pol_cat"}) :
                /\ m["E (kcal/mol)"] < o["E (kcal/mol)"]
                /\ v.Species = m.Species
                /\ w.Species # m.Species
                /\ w["E (kcal/mol)"] < v["E (kcal/mol)"]

\* the record of a species, whatever its category
RecordOfSpecies(species) ==
    raw_data_list[CHOOSE i \in 1..Len(raw_data_list) : raw_data_list[i].Species = species]

\* the records of A, B and C exist and that of the complex A-B does not
OnlyIndividualReactants ==
    /\ HasRecord("A") /\ HasRecord("B") /\ ~HasRecord("A-B")
    /\ \E i \in 1..Len(raw_data_list) : raw_data_list[i].Species = "C"

\* the Gibbs energy of the stage that adds the records of the species given:
\* their sum, None when one of them has none
GibbsSum(species) ==
    IF \A sp \in species : "G (kcal/mol)" \in DOMAIN RecordOfSpecies(sp)
      THEN LET vals == [sp \in species |-> RecordOfSpecies(sp)["G (kcal/mol)"]]
               RECURSIVE sum(_)
               sum(ss) == IF ss = {} THEN 0
                          ELSE LET x == CHOOSE y \in ss : TRUE IN vals[x] + sum(ss \ {x})
           IN  sum(species)
      ELSE NoneInt

\* C11: with records for A, B and C and none for A-B, the profile of C has a
\* Reactants stage "A + B + C" made by addition, whose E and G are the sums
\* of the three records; and each preTS stage of a complex of C with one
\* reactant adds the record of the other reactant to that of the complex
C11_ReactantsByAddition ==
    (phase = "profile" /\ pfStage = "returned" /\ OnlyIndividualReactants)
        => /\ "C" \in DOMAIN profiles
           /\ \E i \in 1..Len(profiles["C"].raw) :
                 LET stage == profiles["C"].raw[i]
                 IN  /\ stage.Stage = "Reactants"
                     /\ stage.Source = "Addition"
                     /\ stage.Species = "A + B + C"
                     /\ stage["E (kcal/mol)"] = EnergyOfSpecies("A") + EnergyOfSpecies("B")
                                                + EnergyOfSpecies("C")
                     /\ stage["G (kcal/mol)"] = GibbsSum({"A", "B", "C"})
           /\ \A j \in 1..Len(raw_data_list) :
                 LET r == raw_data_list[j]
                     e == IF "E (kcal/mol)" \in DOMAIN r
                            THEN r["E (kcal/mol)"] ELSE r["SP_E (kcal/mol)"]
                 IN  (r.Branch = "preTS" /\ r.Species = "C-A")
                        => \E i \in 1..Len(profiles["C"].raw) :
                              LET stage == profiles["C"].raw[i]
                              IN  /\ stage.Stage = "preTS"
                                  /\ stage.Calc_Type = r.Calc_Type
                                  /\ stage.Species = "C-A + B"
                                  /\ stage.Source = "Addition"
                                  /\ stage["E (kcal/mol)"] = e + EnergyOfSpecies("B")

\* the profile of C, assembled from records with G for A, B and C and none
\* for A-B, has the Reactants stage "A + B + C" made by addition
C11_Witness ==
    /\ phase = "profile" /\ pfStage = "returned" /\ OnlyIndividualReactants
    /\ GibbsSum({"A", "B", "C"}) # NoneInt
    /\ "C" \in DOMAIN profiles
    /\ \E i \in 1..Len(profiles["C"].raw) :
          /\ profiles["C"].raw[i].Stage = "Reactants"
          /\ profiles["C"].raw[i].Species = "A + B + C"
          /\ profiles["C"].raw[i]["G (kcal/mol)"] = GibbsSum({"A", "B", "C"})

(***************************************************************************)
(* Properties of the cache of optimisation texts                           *)
(***************************************************************************)
\* the record extract_opt_data gives for an optimisation of the group
OptDataOf(item) ==
    extract_opt_data(FilesAt(fsInputs, fsJobs, item.path), item.metadata, exCriteria)

\* the optimisation of the group a single point was computed on
OwnOptimisation(sp_item) ==
    opt_files[CHOOSE i \in 1..Len(opt_files) :
                 \A k \in {"Category", "Branch", "Species", "Calc_Type", "Catalyst"} :
                    opt_files[i].metadata[k] = sp_item.metadata[k]]

\* C19: within extract_method_combo_data every optimisation of the group is
\* processed before any single point; each single point is given the cached
\* text of its own optimisation (same species, category, branch and
\* variant), or none if that optimisation was not extracted; and the cache
\* is empty when the processing of a group begins
C19_OwnOptimisationText ==
    phase = "extract"
        => /\ exStage = "sp"
                => \A i \in 1..Len(opt_files) :
                      DOMAIN OptDataOf(opt_files[i]) # {}
                         => OptDataOf(opt_files[i]) \in SeqRange(combo_result.opt_data)
           /\ (exStage = "sp" /\ file_idx <= Len(sp_files))
                => Get(opt_content_cache, sp_files[file_idx].metadata.Species, EmptyText)
                     = IF DOMAIN OptDataOf(OwnOptimisation(sp_files[file_idx])) # {}
                         THEN read_text(FilesAt(fsInputs, fsJobs,
                                  OwnOptimisation(sp_files[file_idx]).path).out)
                         ELSE EmptyText
           /\ (exStage = "opt" /\ file_idx = 1) => opt_content_cache = <<>>

(***************************************************************************)
(* Properties of the energy markers                                        *)
(***************************************************************************)
\* the numbers of the output text a record was extracted from
NumbersOf(record) == fsJobs[record.Path].out.values

\* the text has the fallback line and not the primary line of a quantity
OnlyFallback(numbers, primary_pattern, fallback_pattern) ==
    primary_pattern \notin DOMAIN numbers /\ fallback_pattern \in DOMAIN numbers

\* C17: a record has the energy of the primary marker whenever the text has
\* it, and that of the fallback marker only when the primary is absent; the
\* fallback flag of a record from a text with only the fallback marker is
\* set, and that of a record from a text with the primary marker is set only
\* where the enthalpy or the entropy came from its fallback marker
C17_PrimaryBeforeFallback ==
    phase = "extract"
        => /\ \A r \in OptRecords :
                 IF "final_energy" \in DOMAIN NumbersOf(r)
                   THEN /\ r["E (Ha)"] = NumbersOf(r)["final_energy"]
                        /\ r["Fallback Used"] = "Yes"
                              <=> \/ OnlyFallback(NumbersOf(r), "qrrho_total_enthalpy",
                                                  "total_enthalpy_fallback")
                                  \/ OnlyFallback(NumbersOf(r), "qrrho_total_entropy",
                                                  "total_entropy_fallback")
                   ELSE /\ r["E (Ha)"] = NumbersOf(r)["final_energy_fallback"]
                        /\ r["Fallback Used"] = "Yes"
           /\ \A r \in SpRecords :
                 r.Calc_Type \notin {"full_cat", "pol_cat", "frz_cat"}
                    => (r["SP_Fallback Used"] = "Yes"
                           <=> OnlyFallback(NumbersOf(r), "final_energy",
                                            "final_energy_fallback"))

\* a record extracted from an optimisation whose text has the fallback
\* energy line only, with the flag set
C17_Witness ==
    /\ phase = "extract"
    /\ \E r \in OptRecords :
          /\ OnlyFallback(NumbersOf(r), "final_energy", "final_energy_fallback")
          /\ r["E (Ha)"] = NumbersOf(r)["final_energy_fallback"]
          /\ r["Fallback Used"] = "Yes"

\* the place of a stage name on the reaction coordinate
StageRank(stage_name) ==
    CASE stage_name = "Reactants" -> 1
      [] stage_name = "preTS" -> 2
      [] stage_name = "TS" -> 3
      [] stage_name = "postTS" -> 4
      [] stage_name = "Products" -> 5
      [] OTHER -> 0

\* no stage of a later kind precedes a stage of an earlier kind
InStageOrder(profile) ==
    \A i, j \in 1..Len(profile) :
        i < j => /\ StageRank(profile[i].Stage) >= 1
                 /\ StageRank(profile[i].Stage) <= StageRank(profile[j].Stage)

\* the stages of filtered are stages of profile, in the order they have there
KeepsOrderOf(filtered, profile) ==
    LET first(st) == CHOOSE i \in 1..Len(profile) :
                        profile[i] = st /\ \A k \in 1..(i - 1) : profile[k] # st
    IN  /\ \A i \in 1..Len(filtered) : \E k \in 1..Len(profile) : profile[k] = filtered[i]
        /\ \A i, j \in 1..Len(filtered) : i < j => first(filtered[i]) <= first(filtered[j])

\* C16: in every raw and every filtered profile extract_profiles returns the
\* stages stand in the order Reactants, preTS, TS, postTS, Products, and a
\* filtered profile has its stages in the order they have in the raw profile
C16_StagesInOrder ==
    (phase = "profile" /\ pfStage = "returned")
        => \A c \in DOMAIN profiles :
              /\ InStageOrder(profiles[c].raw)
              /\ \A k \in {"E", "G"} :
                    /\ InStageOrder(profiles[c][k])
                    /\ KeepsOrderOf(profiles[c][k], profiles[c].raw)

\* a returned raw profile with stages of all five kinds whose profile
\* filtered by E has lost some of them and still has all five kinds
C16_Witness ==
    /\ phase = "profile"
    /\ pfStage = "returned"
    /\ \E c \in DOMAIN profiles :
          /\ {profiles[c].E[i].Stage : i \in 1..Len(profiles[c].E)}
                = {"Reactants", "preTS", "TS", "postTS", "Products"}
          /\ Len(profiles[c].E) < Len(profiles[c].raw)
          /\ Len(profiles[c].G) > 0

(***************************************************************************)
(* Properties of the callers of iter_input_paths                           *)
(***************************************************************************)
\* the paths of the identities of the configuration: those of the calls of
\* process_file that do not return at the single-point switch (a repeated
\* optimisation has the path of its first occurrence)
IdentityPaths ==
    LET enabled(t) ==
            \/ t.file_mode = "opt"
            \/ /\ processed_config.methods[t.m].name.sp_enabled
               /\ processed_config.methods[t.m].basis_sets[t.b].sp_enabled
    IN  {TaskPath(processed_config, plan[i]) :
            i \in {j \in 1..Len(plan) : enabled(plan[j])}}

\* the paths the caller of the yield-mode run has received
ReceivedPaths == {yielded[i].path : i \in 1..Len(yielded)}

\* the loop of the caller over iter_input_paths has ended
EnumerationEnded ==
    /\ phase \in BuildPhases
    /\ run.mode = "yield"
    /\ (pos > Len(plan) \/ last.outcome = "AttributeError")

\* C15: status reporting, extraction and job submission operate on exactly
\* the identity set of the configuration: when the enumeration a caller makes
\* ends, the caller has received every identity and no other, whichever
\* caller made it; and every file generate mode has written has a path of
\* that set.
C15_CallersUseIdentitySet ==
    /\ EnumerationEnded => ReceivedPaths = IdentityPaths
    /\ phase \in BuildPhases => fsInputs \subseteq IdentityPaths

\* the parts of C15 that do hold: a caller passing the ConfigManager, and
\* the files of generate mode
C15_ManagerCallersUseIdentitySet ==
    /\ (EnumerationEnded /\ run.config_manager = "ConfigManager")
          => ReceivedPaths = IdentityPaths
    /\ phase \in BuildPhases => fsInputs \subseteq IdentityPaths

(***************************************************************************)
(* The operations that read the system directory, side by side: the        *)
(* builder in both modes, the status classifier and the extraction         *)
(***************************************************************************)
InitReadPaths ==
    \/ InitBuilder("enumerate", SmallConfigs, {"ok"})
    \/ InitStatusOf(ReadOutTexts, ErrTexts)
    \/ InitExtractOf({NoJob, FinishedJob("OPTIMIZATION CONVERGED", 0, Thermo)},
                     {CrashedJob, FinishedJob(None, NoneInt, SpNumbers)})

NextReadPaths == NextBuild \/ NextStatus \/ NextExtract

SpecReadPaths == InitReadPaths /\ [][NextReadPaths]_vars

\* C18: the read paths have no write effect: a step that creates, changes or
\* removes a file of the system directory (an input file, a job file, a
\* template, or a file of the calculation the classifier examines) is a step
\* of a generate-mode run of the builder, never one of a yield-mode run, of
\* the status classifier or of the extraction
C18_OnlyGenerateWrites ==
    [][(\/ fsInputs' # fsInputs
        \/ fsJobs' # fsJobs
        \/ fsTemplates' # fsTemplates
        \/ stFiles' # stFiles)
          => (phase \in BuildPhases /\ run.mode = "generate")]_vars

\* a yield-mode run that has ended on a system directory holding the input
\* files an earlier generate-mode run wrote
C18_Witness ==
    /\ phase \in BuildPhases
    /\ run.mode = "yield"
    /\ run.config_manager = "ConfigManager"
    /\ pos > Len(plan)
    /\ Len(yielded) > 0
    /\ fsInputs # {}
    /\ fsInputs \subseteq ReceivedPaths

(***************************************************************************)
(* Properties of the single-point energies                                 *)
(***************************************************************************)
EdaVariants == {"full_cat", "pol_cat", "frz_cat"}

\* the single-point records that hold an energy
SpEnergyRecords == {r \in SpRecords : r["SP_E (Ha)"] # NoneInt}

\* the single-point level of the record names an implicit-solvent model
SolventSpecified(record) == record.SP_Solvent \notin {"", "false", "gas"}

\* the numbers of the output of the optimisation the single point of a record
\* was computed on, none if that optimisation gave no record
OwnOptNumbers(record) ==
    LET own == ExtractItems[CHOOSE i \in 1..Len(ExtractItems) :
                   /\ ExtractItems[i].metadata.Mode = "opt"
                   /\ \A k \in {"Method_Combo", "Category", "Branch", "Species",
                                 "Calc_Type", "Catalyst"} :
                         ExtractItems[i].metadata[k] = record[k]]
        files == FilesAt(fsInputs, fsJobs, own.path)
    IN  IF DOMAIN extract_opt_data(files, own.metadata, exCriteria) = {} THEN <<>>
        ELSE read_text(files.out).values

\* the CDS value (Ha) the optimisation of a record makes available: G-S minus
\* G-ENP
AvailableCds(record) ==
    IF {"smd_g_s", "smd_g_enp"} \subseteq DOMAIN OwnOptNumbers(record)
      THEN OwnOptNumbers(record)["smd_g_s"] - OwnOptNumbers(record)["smd_g_enp"]
      ELSE NoneInt

\* the energy (Ha) a record starts from: the base energy of a decomposition
\* variant, the energy line of a plain single point
BaseEnergy(record) ==
    IF "SP_E_base (Ha)" \in DOMAIN record THEN record["SP_E_base (Ha)"]
    ELSE IF "final_energy" \in DOMAIN NumbersOf(record) THEN NumbersOf(record)["final_energy"]
    ELSE NumbersOf(record)["final_energy_fallback"]

\* the BSSE term (Ha) of a record, 0 without one
BsseTerm(record) == Get(record, "SP_BSSE (Ha)", 0)

\* C21: for every single-point record, plain or decomposition variant, the
\* CDS term is added to the base energy exactly when the single-point level
\* specifies an implicit-solvent model and a CDS value is available: the final
\* energy is then base + CDS (+ BSSE) in Hartree and in kcal/mol, and with no
\* solvent specified no CDS term is added
C21_CdsWhenSolvent ==
    phase = "extract"
        => \A r \in SpEnergyRecords :
              LET cds == IF SolventSpecified(r) /\ AvailableCds(r) # NoneInt
                           THEN AvailableCds(r) ELSE 0
              IN  /\ r["SP_E (Ha)"] = BaseEnergy(r) + cds + BsseTerm(r)
                  /\ r["SP_E (kcal/mol)"]
                        = convert_energy_unit(BaseEnergy(r), "Ha", "kcal/mol")
                          + convert_energy_unit(cds, "Ha", "kcal/mol")
                          + Get(r, "SP_BSSE (kcal/mol)", 0)

\* the single-point records of the decomposition variants
EdaRecords == {r \in SpRecords : r.Calc_Type \in EdaVariants}

\* C22: the base energy of a decomposition-variant single point is that of
\* the polarized marker for frz and pol and that of the convergence marker
\* for full; the BSSE term is extracted and added for full only, so a pol or
\* frz record has no BSSE term, and the fallback-reason tag of a full record
\* tells whether BSSE was applied
C22_BsseForFullOnly ==
    phase = "extract"
        => \A r \in EdaRecords :
              IF r.Calc_Type = "full_cat"
                THEN /\ r["SP_E_base (Ha)"] = Get(NumbersOf(r), "eda_convergence", NoneInt)
                     /\ r["SP_E_base (Ha)"] # NoneInt
                           => /\ "SP_BSSE (Ha)" \in DOMAIN r <=> "bsse" \in DOMAIN NumbersOf(r)
                              /\ "SP_BSSE (Ha)" \in DOMAIN r
                                    => /\ r["SP_BSSE (kJ/mol)"] = NumbersOf(r)["bsse"]
                                       /\ r["SP_BSSE (Ha)"]
                                            = convert_energy_unit(NumbersOf(r)["bsse"], "kJ/mol", "Ha")
                              /\ r["SP_E (Ha)"] = r["SP_E_base (Ha)"] + BsseTerm(r)
                                                    + Get(r, "SP_CDS (Ha)", 0)
                              /\ r["SP_Fallback Used"]
                                    = IF "SP_BSSE (Ha)" \in DOMAIN r
                                        THEN "convergence_bsse_full"
                                        ELSE "convergence_no_bsse_full"
                ELSE /\ r["SP_E_base (Ha)"] = Get(NumbersOf(r), "eda_polarized", NoneInt)
                     /\ DOMAIN r \cap {"SP_BSSE (kJ/mol)", "SP_BSSE (kcal/mol)", "SP_BSSE (Ha)"} = {}
                     /\ r["SP_E_base (Ha)"] # NoneInt
                           => /\ r["SP_E (Ha)"] = r["SP_E_base (Ha)"] + Get(r, "SP_CDS (Ha)", 0)
                              /\ r["SP_Fallback Used"] \in {"polarized_energy_pol",
                                                             "polarized_energy_frz"}

\* a full record with the BSSE term added and tagged, next to a pol record of
\* a text that has the BSSE line too
C22_Witness ==
    /\ phase = "extract"
    /\ \E r \in EdaRecords :
          /\ r.Calc_Type = "full_cat"
          /\ r["SP_Fallback Used"] = "convergence_bsse_full"
          /\ r["SP_E (Ha)"] = r["SP_E_base (Ha)"] + r["SP_BSSE (Ha)"]
          /\ r["SP_BSSE (Ha)"] # 0
    /\ \E r \in EdaRecords :
          /\ r.Calc_Type = "pol_cat"
          /\ "bsse" \in DOMAIN NumbersOf(r)
          /\ r["SP_E (Ha)"] = NumbersOf(r)["eda_polarized"]

(***************************************************************************)
(* Properties of the submission marker                                     *)
(***************************************************************************)
\* C23: while a submission marker file exists and the error stream has
\* neither the cancellation marker nor a crash marker, the status is running,
\* whether the output has the completion marker or does not exist; once the
\* marker is gone the status is the one the current files give by themselves
C23_RunningWhileSubmitted ==
    Classified
        => /\ (stFiles.sub /\ StErr \cap {"CANCELLED AT", "Error in Q-Chem run", "Aborted"} = {})
                 => stResult = <<"running", "Job submission file exists">>
           /\ ~stFiles.sub
                 => /\ stResult
                         = get_status_for_file(CalcFiles(TRUE, stFiles.out, stFiles.err, FALSE),
                                               stMeta)
                    /\ stResult[2] # "Job submission file exists"

\* a calculation whose submission marker is gone and whose output has the
\* completion marker, classified again as SUCCESSFUL
C23_Witness ==
    /\ Classified
    /\ ~stFiles.sub
    /\ "Thank you very much" \in StContent.markers
    /\ StErr = {}
    /\ stResult[1] = "SUCCESSFUL"


(***************************************************************************)
(* Properties of the processing criterion                                  *)
(***************************************************************************)
\* the values of --overwrite and --run, and the option left out
Criteria == {"all", "nofile", "CRASH", "terminated", "SUCCESSFUL", "running", None}

\* the criterion is all or is the status, whatever the case of the letters
MatchesStatus(criteria, status) ==
    criteria # None /\ (LowerOf(criteria) = "all" \/ LowerOf(criteria) = LowerOf(status))

\* C24: should_process_file is true exactly when the input file exists, a
\* criterion is given, and the criterion is all or equals the status the
\* classifier returns for the file, the criterion nofile included
C24_ProcessByStatus ==
    Classified
        => \A criteria \in Criteria :
              should_process_file(stFiles, criteria, stMeta)[1]
                  <=> (stFiles.inp /\ MatchesStatus(criteria, stResult[1]))


(***************************************************************************)
(* Properties of the derived values                                        *)
(***************************************************************************)
\* the column of the most fully corrected energy of a record
EnergyKey(record) ==
    IF record.Mode = "sp" THEN "SP_E (kcal/mol)" ELSE "E (kcal/mol)"

\* the record has a number in the column
HasValue(record, key) == key \in DOMAIN record /\ record[key] # NoneInt

\* C25: a record holds H exactly when an energy and the enthalpy correction
\* were extracted and G exactly when the entropy correction and the
\* temperature were extracted as well, with H = energy + enthalpy correction
\* and G = H - temperature x entropy correction; the energy is the
\* single-point energy with CDS and BSSE included for a single-point record
\* and the optimisation energy otherwise
C25_DerivedValues ==
    phase = "extract"
        => \A r \in OptRecords \cup SpRecords :
              LET hasH == /\ HasValue(r, EnergyKey(r))
                          /\ "Total Enthalpy Corr. (kcal/mol)" \in DOMAIN r
                  hasG == /\ hasH
                          /\ {"Temperature (K)", "Total Entropy Corr. (kcal/mol.K)"}
                                \subseteq DOMAIN r
              IN  /\ "H (kcal/mol)" \in DOMAIN r <=> hasH
                  /\ hasH => r["H (kcal/mol)"]
                                = r[EnergyKey(r)] + r["Total Enthalpy Corr. (kcal/mol)"]
                  /\ "G (kcal/mol)" \in DOMAIN r <=> hasG
                  /\ hasG => r["G (kcal/mol)"]
                                = r["H (kcal/mol)"]
                                  - r["Temperature (K)"] * r["Total Entropy Corr. (kcal/mol.K)"]
                  /\ (r.Mode = "sp" /\ HasValue(r, "SP_E (kcal/mol)"))
                        => r["SP_E (kcal/mol)"]
                             = convert_energy_unit(BaseEnergy(r), "Ha", "kcal/mol")
                               + Get(r, "G_CDS (kcal/mol)", 0)
                               + Get(r, "SP_BSSE (kcal/mol)", 0)

\* a single-point record with a CDS term whose H and G start from the energy
\* with the term included, next to an optimisation record with H and G
C25_Witness ==
    /\ phase = "extract"
    /\ \E r \in SpRecords :
          /\ Get(r, "G_CDS (kcal/mol)", 0) # 0
          /\ "G (kcal/mol)" \in DOMAIN r
          /\ r["H (kcal/mol)"]
                = convert_energy_unit(BaseEnergy(r), "Ha", "kcal/mol")
                  + r["G_CDS (kcal/mol)"] + r["Total Enthalpy Corr. (kcal/mol)"]
    /\ \E r \in OptRecords : "G (kcal/mol)" \in DOMAIN r


(***************************************************************************)
(* Properties of the energies of the stages                                *)
(***************************************************************************)
\* the stage has a number under the energy named
Resolved(stage, energy_type) ==
    LET energy_key == energy_type \o " (kcal/mol)"
    IN  energy_key \in DOMAIN stage /\ stage[energy_key] # NoneInt

\* C26: every stage of a returned profile has resolved energies: a stage of
\* the raw profile and of the profile filtered by E has its E, and a stage of
\* the profile filtered by G has its G, never a missing value or None
C26_ResolvedEnergies ==
    (phase = "profile" /\ pfStage = "returned")
        => \A c \in DOMAIN profiles :
              /\ \A i \in 1..Len(profiles[c].raw) : Resolved(profiles[c].raw[i], "E")
              /\ \A i \in 1..Len(profiles[c].E) : Resolved(profiles[c].E[i], "E")
              /\ \A i \in 1..Len(profiles[c].G) : Resolved(profiles[c].G[i], "G")


(***************************************************************************)
(* Properties of the CDS term                                              *)
(***************************************************************************)
\* the plain single points of a method combo that were to be extracted and
\* have an energy line
PlainSpOf(combo) ==
    {ExtractItems[i].metadata : i \in
        {j \in 1..Len(ExtractItems) :
            LET m == ExtractItems[j].metadata
            IN  /\ m.Mode = "sp" /\ m.Method_Combo = combo /\ m.Calc_Type \notin EdaVariants
                /\ should_process_file(FilesAt(fsInputs, fsJobs, m.Path), exCriteria, NoMeta)[1]
                /\ DOMAIN NumbersOf(m) \cap {"final_energy", "final_energy_fallback"} # {}}}

\* C27: for a single point whose CDS extraction reads its optimisation (a
\* plain single point), when the optimisation has the two components the
\* record is produced whether or not the component-derived value agrees with
\* the summary of the optimisation and with the total of the single point;
\* the CDS value of the record, added to its energy, is the component-derived
\* one, and the record keeps the outcome of each validation
C27_MismatchNonFatal ==
    phase = "extract"
        => \A c \in DOMAIN all_results : \A m \in PlainSpOf(c) :
              LET opt == OwnOptNumbers(m)
                  cds_kcal == convert_energy_unit(AvailableCds(m), "Ha", "kcal/mol")
              IN  {"smd_g_s", "smd_g_enp"} \subseteq DOMAIN opt
                    => \E r \in SeqRange(all_results[c].sp_data) :
                          /\ r.Path = m.Path
                          /\ {"G_CDS (Ha)", "G_CDS (kcal/mol)"} \subseteq DOMAIN r
                          /\ r["G_CDS (Ha)"] = AvailableCds(m)
                          /\ r["G_CDS (kcal/mol)"] = cds_kcal
                          /\ r["SP_E (Ha)"] = BaseEnergy(r) + AvailableCds(m)
                          /\ "smd_cds_summary" \in DOMAIN opt
                                => /\ "opt_summary_match" \in DOMAIN r
                                   /\ r["opt_summary_match"] = (cds_kcal = opt["smd_cds_summary"])
                          /\ "smd_cds_sp_total" \in DOMAIN NumbersOf(m)
                                => /\ "sp_total_match" \in DOMAIN r
                                   /\ r["sp_total_match"]
                                         = (cds_kcal = NumbersOf(m)["smd_cds_sp_total"])

\* an exported record whose CDS value disagrees with the summary of its
\* optimisation and with the total of its single point
C27_Witness ==
    /\ phase = "extract"
    /\ \E c \in DOMAIN all_results : \E r \in SeqRange(all_results[c].sp_data) :
          /\ "opt_summary_match" \in DOMAIN r /\ ~r["opt_summary_match"]
          /\ "sp_total_match" \in DOMAIN r /\ ~r["sp_total_match"]
          /\ r["G_CDS (Ha)"] = 1
          /\ r["SP_E (Ha)"] = BaseEnergy(r) + 1


\* the method combos whose extraction has ended, with records or with an
\* exception
HandledCombos == DOMAIN all_results \cup failed_combos

\* C28: when the optimisation of a plain single point lacks the two
\* components and has the CDS summary, the record of the single point is
\* produced with the summary value as its CDS term in kcal/mol and the
\* Hartree equivalent of it, added to its energy
C28_SummaryFallback ==
    phase = "extract"
        => \A c \in HandledCombos : \A m \in PlainSpOf(c) :
              LET opt == OwnOptNumbers(m)
              IN  (/\ DOMAIN opt \cap {"smd_g_s", "smd_g_enp"} = {}
                   /\ "smd_cds_summary" \in DOMAIN opt)
                    => /\ c \in DOMAIN all_results
                       /\ \E r \in SeqRange(all_results[c].sp_data) :
                             /\ r.Path = m.Path
                             /\ {"G_CDS (Ha)", "G_CDS (kcal/mol)"} \subseteq DOMAIN r
                             /\ r["G_CDS (kcal/mol)"] = opt["smd_cds_summary"]
                             /\ r["G_CDS (Ha)"]
                                   = convert_energy_unit(opt["smd_cds_summary"], "kcal/mol", "Ha")


(***************************************************************************)
(* Totality of the status classifier                                       *)
(***************************************************************************)
\* the states of a calculation
StatusSet == {"terminated", "CRASH", "running", "nofile", "SUCCESSFUL", "empty", "VALIDATION"}

\* the output is not blank and neither it, the error stream nor a submission
\* marker matches a rule of the classifier
NoKnownPattern ==
    /\ StripTruthy(StContent)
    /\ StContent.markers \subseteq {"other text"}
    /\ StErr \cap ErrMarkers = {}
    /\ ~stFiles.sub

\* C29: for every output text, error text and submission marker the
\* classifier returns one state of the set with a detail string, and an
\* output that is not blank and matches no rule is CRASH, Unknown failure
C29_ClassifierTotal ==
    Classified
        => /\ Len(stResult) = 2
           /\ stResult[1] \in StatusSet
           /\ stResult[2] \in STRING
           /\ NoKnownPattern => stResult = <<"CRASH", "Unknown failure">>

\* an output with text no rule matches, classified CRASH, Unknown failure
C29_Witness ==
    /\ Classified
    /\ NoKnownPattern
    /\ StContent.markers = {"other text"}
    /\ stResult = <<"CRASH", "Unknown failure">>


(***************************************************************************)
(* Properties of the stages of the decomposition variants                  *)
(***************************************************************************)
\* the energy column of a record of the list: E of an optimisation, SP_E of a
\* single point
EnergyColumn(record) ==
    IF "E (kcal/mol)" \in DOMAIN record THEN "E (kcal/mol)" ELSE "SP_E (kcal/mol)"

\* the components a stage adds to the record of a complex
AddedTo(record) ==
    IF record.Branch = "preTS"
      THEN Missing(get_components(raw_data_list).all_reactants, record.reactants)
    ELSE IF record.Branch = "postTS"
      THEN Missing(get_components(raw_data_list).all_products, record.products)
    ELSE <<>>

\* the sum of a column over the records of the species given, None when one
\* of them has no number in it
RECURSIVE SumOver(_, _)
SumOver(species, column) ==
    IF Len(species) = 0 THEN 0
    ELSE LET r == RecordOfSpecies(Head(species))
             k == IF column = "E" THEN EnergyColumn(r) ELSE "G (kcal/mol)"
             rest == SumOver(Tail(species), column)
         IN  IF ~HasValue(r, k) \/ rest = NoneInt THEN NoneInt ELSE r[k] + rest

\* C30: in every returned profile, raw or filtered, a stage labelled with the
\* variant V for the complex X carries the energies of the record of X in
\* the variant V, with those of the components it adds: its E is the energy
\* of that record plus theirs, and its G is the G of that record plus theirs,
\* or None when one of them has no G
C30_StageOfOwnRecord ==
    (phase = "profile" /\ pfStage = "returned")
        => \A j \in 1..Len(raw_data_list) :
              LET r == raw_data_list[j]
                  added == SumOver(AddedTo(r), "E")
                  added_g == SumOver(AddedTo(r), "G")
              IN  (r.Calc_Type \in EdaVariants /\ r.Catalyst \in DOMAIN profiles)
                    => \A k \in {"raw", "E", "G"} :
                          \A i \in 1..Len(profiles[r.Catalyst][k]) :
                             LET stage == profiles[r.Catalyst][k][i]
                             IN  (/\ stage.Calc_Type = r.Calc_Type
                                  /\ stage.Stage = (IF r.Branch = "ts" THEN "TS" ELSE r.Branch)
                                  /\ stage.Species = Join(<<r.Species>> \o AddedTo(r), " + "))
                                    => /\ HasValue(r, EnergyColumn(r))
                                       /\ stage["E (kcal/mol)"] = r[EnergyColumn(r)] + added
                                       /\ stage["G (kcal/mol)"]
                                             = IF HasValue(r, "G (kcal/mol)") /\ added_g # NoneInt
                                                 THEN r["G (kcal/mol)"] + added_g
                                                 ELSE NoneInt
====
